---- MODULE Spec2Model ----
(***************************************************************************)
(* The attribute-binding subsystem of the dal crate                         *)
(* (lib/dal/src/func/binding/attribute.rs) as a state machine over one     *)
(* change set's workspace-snapshot graph.                                  *)
(*                                                                         *)
(* The graph holds AttributePrototype nodes (each with a Use edge to its   *)
(* function), Prototype edges from props, sockets and attribute values to  *)
(* prototypes, and AttributePrototypeArgument nodes.  Schema variants,     *)
(* props, sockets, components and attribute values are a fixed schema.     *)
(* Every binding operation is one action; what it did is recorded in       *)
(* pre_graph (the graph before the call), call (the operation and its      *)
(* parameters) and result (error, returned prototype, enqueue calls);      *)
(* ncalls counts the operations called so far.                             *)
(***************************************************************************)
EXTENDS Integers, Sequences, FiniteSets, TLC

\* Binding operations one behaviour calls.
MaxCalls == 2
\* Longest list of argument bindings a request carries.
MaxArgs == 2
\* Change sets forked from head in one behaviour.
MaxChangeSets == 3
\* The number of requests the handlers serve.
MaxHandlers == 2
\* The number of SymmetricCryptoService values built, of extra keys given to
\* one, and of messages encrypted.
MaxServices == 2
MaxExtraKeys == 2
MaxSealed == 1

\* The binding subsystem: the graph of one change set and the last call.
VARIABLES graph, locked, pre_graph, call, result, ncalls
\* The handler input the assemble_* functions turn into a binding request.
VARIABLES request, assembly
\* Head, the change sets forked from it, the node ids handed out, and the
\* last operation on a change set.
VARIABLES base, change_sets, minted, last
\* The request a handler is serving, the jobs its context holds and the job
\* runner has received, and the transactions committed.
VARIABLES handler, jobs, committed
\* The argument-source edges between attribute values, the values a
\* dependent values update is started for, and the state of its run.
VARIABLES dependencies, roots, dvu
\* The types compile_attribute_types last compiled.
VARIABLES compiled
\* The SymmetricCryptoService values built, what encrypt has returned, and
\* the last encrypt or decrypt call with its result.
VARIABLES services, sealed, crypto
\* A message's header map, the ContentInfo last injected into it, and the
\* result of the last parse of it.
VARIABLES headers, injected, parsed

binding_vars == <<graph, locked, pre_graph, call, result, ncalls>>
assemble_vars == <<request, assembly>>
view_vars == <<base, change_sets, minted, last>>
handler_vars == <<handler, jobs, committed>>
propagation_vars == <<dependencies, roots, dvu>>
compile_vars == <<compiled>>
crypto_vars == <<services, sealed, crypto>>
header_vars == <<headers, injected, parsed>>
rest_vars == <<handler_vars, propagation_vars, compile_vars, crypto_vars, header_vars>>
vars == <<binding_vars, assemble_vars, view_vars, rest_vars>>

----------------------------------------------------------------------------
\* The schema the graph is built over.

SchemaVariants == {"v1", "v2"}
Props == {"p1", "p2"}
OutputSockets == {"o1"}
InputSockets == {"i1"}
Components == {"c1", "c2"}
AttributeValues == {"a1", "a2", "a3", "a4", "a5"}

\* Prop -> SchemaVariant, Socket -> SchemaVariant, Component -> SchemaVariant.
LocationVariant ==
    "p1" :> "v1" @@ "p2" :> "v2" @@ "o1" :> "v1" @@ "i1" :> "v1"
ComponentVariant == "c1" :> "v1" @@ "c2" :> "v1"

\* AttributeValue -> its component, and the prop or socket it is a value of.
\* Component c1 holds two values of prop p1 (two elements under one parent);
\* no component uses schema variant v2, so p2 has no values.
AvComponent ==
    "a1" :> "c1" @@ "a2" :> "c1" @@ "a3" :> "c2" @@ "a4" :> "c1" @@ "a5" :> "c2"
AvLocation ==
    "a1" :> "p1" @@ "a2" :> "p1" @@ "a3" :> "p1" @@ "a4" :> "o1" @@ "a5" :> "o1"

\* Functions in the graph and their FuncKind.
FuncKindOf ==
    "fAttr" :> "Attribute" @@ "fAction" :> "Action" @@ "fIdentity" :> "Intrinsic"
\* Function ids a request may name: an attribute function and an action
\* function of the graph.
FuncIds == {"fAttr", "fAction"}

\* FuncArgument nodes in the graph.
FuncArguments == {"fa1", "faIdentity"}

\* Static argument values serde_json parses; a request may carry others.
JsonParses == {"1"}

EventualParentComponent(c) == [kind |-> "Component", id |-> c]
EventualParentSchemaVariant(v) == [kind |-> "SchemaVariant", id |-> v]
NoEventualParent == [kind |-> "None", id |-> ""]
EventualParents ==
    {EventualParentComponent(c) : c \in Components}
        \cup {EventualParentSchemaVariant(v) : v \in SchemaVariants}

\* AttributeFuncDestination: Prop(prop_id) | OutputSocket(output_socket_id).
AttributeFuncDestinations == Props \cup OutputSockets

\* AttributeFuncArgumentSource: Prop | InputSocket | StaticArgument.
SourceProp(prop_id) == [kind |-> "Prop", value |-> prop_id]
SourceInputSocket(input_socket_id) == [kind |-> "InputSocket", value |-> input_socket_id]
SourceStaticArgument(value) == [kind |-> "StaticArgument", value |-> value]
NoSource == [kind |-> "None", value |-> ""]

\* AttributeArgumentBinding: the parameter and where its value comes from.
\* A request may bind the parameter fa1 to a prop, to a static value that
\* parses or to one that does not; it may name a parameter no node has (a
\* stale binding), or the id of a node that is not a FuncArgument.
Binding(func_argument_id, source) ==
    [func_argument_id |-> func_argument_id, attribute_func_input_location |-> source]
AttributeArgumentBindings ==
    {Binding("fa1", SourceProp("p2")),
     Binding("fa1", SourceStaticArgument("1")),
     Binding("fa1", SourceStaticArgument("{")),
     Binding("faGone", SourceInputSocket("i1")),
     Binding("p1", SourceProp("p2"))}

ArgumentLists == UNION {[1..n -> AttributeArgumentBindings] : n \in 0..MaxArgs}

----------------------------------------------------------------------------
\* The graph: prototype nodes, their function, Prototype edges <<source,
\* prototype>>, argument nodes, and the next fresh node id.

PrototypeSources == Props \cup OutputSockets \cup InputSockets

\* Every prop and socket of a schema variant is created with a default
\* prototype running the intrinsic identity function; the one of p1 takes
\* its argument from input socket i1.
InitialPrototypeId ==
    "p1" :> 1 @@ "p2" :> 2 @@ "o1" :> 3 @@ "i1" :> 4
InitialPrototypes == {InitialPrototypeId[s] : s \in PrototypeSources}
InitialArguments ==
    {[id |-> Cardinality(PrototypeSources) + 1, proto |-> InitialPrototypeId["p1"],
      func_argument_id |-> "faIdentity", source |-> SourceInputSocket("i1")]}
FirstNewId == Cardinality(PrototypeSources) + Cardinality(InitialArguments) + 1

InitialGraph ==
    [protos |-> InitialPrototypes,
     func   |-> [p \in InitialPrototypes |-> "fIdentity"],
     pedges |-> {<<s, InitialPrototypeId[s]>> : s \in PrototypeSources},
     args   |-> InitialArguments,
     next   |-> FirstNewId]

\* The prototype an attribute value is attached to at component level.
component_prototype_id(g, av) == {e[2] : e \in {x \in g.pedges : x[1] = av}}

\* AttributePrototype::find_for_prop / find_for_output_socket: the default
\* prototype of a prop or socket, if any.
find_for_location(g, loc) == {e[2] : e \in {x \in g.pedges : x[1] = loc}}

\* The prototype whose function computes an attribute value: its component
\* level prototype when it has one, else the default of its prop or socket.
ControllingPrototypes(g, av) ==
    IF component_prototype_id(g, av) # {}
    THEN component_prototype_id(g, av)
    ELSE find_for_location(g, AvLocation[av])

\* AttributePrototype::new: a node with a Use edge to the function.
AttributePrototype_new(g, func_id) ==
    [g EXCEPT !.protos = @ \cup {g.next},
              !.func = [p \in g.protos \cup {g.next} |->
                           IF p = g.next THEN func_id ELSE g.func[p]],
              !.next = @ + 1]

\* AttributePrototype::remove: the node goes, with every edge to or from it.
AttributePrototype_remove(g, id) ==
    [g EXCEPT !.protos = @ \ {id},
              !.func = [p \in g.protos \ {id} |-> g.func[p]],
              !.pedges = {e \in @ : e[2] # id}]

\* Prop::add_edge_to_attribute_prototype and the OutputSocket one.
add_edge_to_attribute_prototype(g, loc, id) ==
    [g EXCEPT !.pedges = @ \cup {<<loc, id>>}]

\* AttributeValue::set_component_prototype_id: repoint the value's
\* component-level Prototype edge.
set_component_prototype_id(g, av, id) ==
    [g EXCEPT !.pedges = {e \in @ : e[1] # av} \cup {<<av, id>>}]

\* Component::attribute_values_for_prop_id.
attribute_values_for_prop_id(component_id, prop_id) ==
    {a \in AttributeValues : AvComponent[a] = component_id /\ AvLocation[a] = prop_id}

\* OutputSocket::component_attribute_value_for_output_socket_id.
component_attribute_value_for_output_socket_id(output_socket_id, component_id) ==
    {a \in AttributeValues :
        AvComponent[a] = component_id /\ AvLocation[a] = output_socket_id}

\* AttributePrototypeArgument::list_ids_for_prototype.
list_ids_for_prototype(g, id) == {a.id : a \in {x \in g.args : x.proto = id}}

\* AttributePrototypeArgument::new: a node under the prototype, using the
\* function argument, with no value source yet.
AttributePrototypeArgument_new(g, id, func_argument_id) ==
    [g EXCEPT !.args = @ \cup {[id |-> g.next, proto |-> id,
                                func_argument_id |-> func_argument_id,
                                source |-> NoSource]},
              !.next = @ + 1]

\* set_value_from_prop_id / _input_socket_id / _static_value.
set_value_source(g, apa, src) ==
    [g EXCEPT !.args = {IF a.id = apa THEN [a EXCEPT !.source = src] ELSE a : a \in @}]

\* AttributePrototypeArgument::remove.
AttributePrototypeArgument_remove(g, apa) ==
    [g EXCEPT !.args = {a \in @ : a.id # apa}]

\* FuncArgument::get_by_id_or_error.
FuncArgument_get_by_id_or_error(func_argument_id) ==
    IF func_argument_id \in FuncArguments THEN "Ok"
    ELSE IF func_argument_id \in PrototypeSources THEN "UnexpectedNodeWeight"
    ELSE "NodeWithIdNotFound"

\* AttributePrototype::eventual_parent: walk the incoming Prototype edge.
AttributePrototype_eventual_parent(g, id) ==
    LET sources == {e[1] : e \in {x \in g.pedges : x[2] = id}} IN
    IF id \notin g.protos \/ sources = {}
    THEN [kind |-> "Err", id |-> "", from |-> ""]
    ELSE LET s == CHOOSE x \in sources : TRUE IN
         IF s \in AttributeValues
         THEN [kind |-> "Component", id |-> AvComponent[s], from |-> "AttributeValue"]
         ELSE [kind |-> "SchemaVariant", id |-> LocationVariant[s],
               from |-> IF s \in Props THEN "Prop"
                        ELSE IF s \in OutputSockets THEN "OutputSocket"
                        ELSE "InputSocket"]

\* AttributePrototype::attribute_value_ids: the values the prototype controls.
attribute_value_ids(g, id) ==
    {a \in AttributeValues : id \in ControllingPrototypes(g, a)}

\* AttributeFuncDestination::find_schema_variant.
find_schema_variant(output_location) == LocationVariant[output_location]

\* EventualParent::error_if_locked.
error_if_locked(eventual_parent) ==
    eventual_parent.kind = "SchemaVariant" /\ eventual_parent.id \in locked

----------------------------------------------------------------------------
\* attribute.rs.  An operation threads a context through its steps: the
\* graph, the enqueue calls made so far, and the error that stopped it.

Ctx(g) == [g |-> g, enq |-> <<>>, err |-> "Ok", proto |-> 0]
Fail(st, e) == [st EXCEPT !.err = e]

\* Faulty variant: a prototype on an input socket is taken for a dangling one.
find_eventual_parent_InputSocketDangling(g, attribute_prototype_id) ==
    LET p == AttributePrototype_eventual_parent(g, attribute_prototype_id) IN
    IF p.kind # "Err" /\ p.from = "InputSocket"
    THEN [kind |-> "Err", id |-> ""]
    ELSE [kind |-> p.kind, id |-> p.id]

\* find_eventual_parent: the four AttributePrototypeEventualParent cases
\* become Component or SchemaVariant; the error of the walk is passed on.
find_eventual_parent(g, attribute_prototype_id) ==
    LET p == AttributePrototype_eventual_parent(g, attribute_prototype_id) IN
    [kind |-> p.kind, id |-> p.id]

RECURSIVE RemoveArguments(_, _)
RemoveArguments(g, apas) ==
    IF apas = {} THEN g
    ELSE LET apa == CHOOSE x \in apas : TRUE IN
         RemoveArguments(AttributePrototypeArgument_remove(g, apa), apas \ {apa})

delete_attribute_prototype_args(st, attribute_prototype_id) ==
    [st EXCEPT !.g = RemoveArguments(st.g,
                        list_ids_for_prototype(st.g, attribute_prototype_id))]

\* Faulty variant: the prototype is removed and its arguments are left behind.
delete_attribute_prototype_and_args_KeepsArguments(st, attribute_prototype_id) ==
    LET eventual_parent == find_eventual_parent(st.g, attribute_prototype_id) IN
    IF eventual_parent.kind = "Err" THEN Fail(st, "OrphanedPrototype")
    ELSE IF error_if_locked(eventual_parent) THEN Fail(st, "SchemaVariantLocked")
    ELSE [st EXCEPT !.g = AttributePrototype_remove(st.g, attribute_prototype_id)]

\* delete_attribute_prototype_and_args: the lock of the eventual parent, the
\* arguments, the prototype.
delete_attribute_prototype_and_args(st, attribute_prototype_id) ==
    LET eventual_parent == find_eventual_parent(st.g, attribute_prototype_id) IN
    IF eventual_parent.kind = "Err" THEN Fail(st, "OrphanedPrototype")
    ELSE IF error_if_locked(eventual_parent) THEN Fail(st, "SchemaVariantLocked")
    ELSE LET s1 == delete_attribute_prototype_args(st, attribute_prototype_id) IN
         [s1 EXCEPT !.g = AttributePrototype_remove(s1.g, attribute_prototype_id)]

\* Faulty variant: the queue is called even when no value is impacted.
enqueue_dvu_for_impacted_values_EnqueuesEmpty(st, attribute_prototype_id) ==
    LET impacted_avs == attribute_value_ids(st.g, attribute_prototype_id) IN
    IF st.err # "Ok" THEN st
    ELSE [st EXCEPT !.enq = Append(@, impacted_avs)]

\* enqueue_dvu_for_impacted_values, lines 456-469.
enqueue_dvu_for_impacted_values(st, attribute_prototype_id) ==
    LET impacted_avs == attribute_value_ids(st.g, attribute_prototype_id) IN
    IF st.err # "Ok" THEN st
    ELSE IF impacted_avs # {} THEN [st EXCEPT !.enq = Append(@, impacted_avs)]
    ELSE st

\* Faulty variant: a function parameter that is not in the graph fails the call.
RECURSIVE CreateArguments_FailsOnMissing(_, _, _, _)
CreateArguments_FailsOnMissing(st, attribute_prototype_id, prototype_arguments, i) ==
    IF st.err # "Ok" \/ i > Len(prototype_arguments) THEN st
    ELSE LET arg == prototype_arguments[i]
             lookup == FuncArgument_get_by_id_or_error(arg.func_argument_id)
             apa == st.g.next
             s1 == [st EXCEPT !.g = AttributePrototypeArgument_new(
                                        st.g, attribute_prototype_id, arg.func_argument_id)]
             src == arg.attribute_func_input_location
         IN IF lookup # "Ok" THEN Fail(st, lookup)
            ELSE IF src.kind = "StaticArgument" /\ src.value \notin JsonParses
            THEN Fail(s1, "SerdeJson")
            ELSE CreateArguments_FailsOnMissing(
                     [s1 EXCEPT !.g = set_value_source(s1.g, apa, src)],
                     attribute_prototype_id, prototype_arguments, i + 1)

\* The argument loop of upsert_attribute_binding and of
\* update_attribute_binding_arguments, from the i-th requested argument on.
RECURSIVE CreateArguments(_, _, _, _)
CreateArguments(st, attribute_prototype_id, prototype_arguments, i) ==
    IF st.err # "Ok" \/ i > Len(prototype_arguments) THEN st
    ELSE LET arg == prototype_arguments[i]
             lookup == FuncArgument_get_by_id_or_error(arg.func_argument_id)
             apa == st.g.next
             s1 == [st EXCEPT !.g = AttributePrototypeArgument_new(
                                        st.g, attribute_prototype_id, arg.func_argument_id)]
             src == arg.attribute_func_input_location
         IN IF lookup = "NodeWithIdNotFound"
            THEN CreateArguments(st, attribute_prototype_id, prototype_arguments, i + 1)
            ELSE IF lookup # "Ok" THEN Fail(st, lookup)
            ELSE IF src.kind = "StaticArgument" /\ src.value \notin JsonParses
            THEN Fail(s1, "SerdeJson")
            ELSE CreateArguments([s1 EXCEPT !.g = set_value_source(s1.g, apa, src)],
                                 attribute_prototype_id, prototype_arguments, i + 1)

\* upsert_attribute_binding, lines 183-194: the function's kind, the
\* eventual parent, the lock.
UpsertEventualParent(eventual_parent, output_location) ==
    IF eventual_parent.kind = "None"
    THEN EventualParentSchemaVariant(find_schema_variant(output_location))
    ELSE eventual_parent

\* Faulty variant: the lock of the eventual parent is not consulted.
UpsertPrecondition_NoLockCheck(func_id, eventual_parent, output_location) ==
    IF func_id \notin DOMAIN FuncKindOf THEN "FuncNotFound"
    ELSE IF FuncKindOf[func_id] # "Attribute" THEN "UnexpectedFuncKind"
    ELSE "Ok"

\* Faulty variant: the lock is checked before the function's kind.
UpsertPrecondition_LockCheckFirst(func_id, eventual_parent, output_location) ==
    IF error_if_locked(UpsertEventualParent(eventual_parent, output_location))
    THEN "SchemaVariantLocked"
    ELSE IF func_id \notin DOMAIN FuncKindOf THEN "FuncNotFound"
    ELSE IF FuncKindOf[func_id] # "Attribute" THEN "UnexpectedFuncKind"
    ELSE "Ok"

UpsertPrecondition(func_id, eventual_parent, output_location) ==
    IF func_id \notin DOMAIN FuncKindOf THEN "FuncNotFound"
    ELSE IF FuncKindOf[func_id] # "Attribute" THEN "UnexpectedFuncKind"
    ELSE IF error_if_locked(UpsertEventualParent(eventual_parent, output_location))
    THEN "SchemaVariantLocked"
    ELSE "Ok"

\* Faulty variant: the new prototype is linked without removing the existing one.
UpsertSchemaVariantDefault_KeepsExisting(st, location, attribute_prototype_id) ==
    [st EXCEPT !.g = add_edge_to_attribute_prototype(st.g, location, attribute_prototype_id)]

\* Prop x SchemaVariant and OutputSocket x SchemaVariant: replace the default.
UpsertSchemaVariantDefault(st, location, attribute_prototype_id) ==
    LET existing == find_for_location(st.g, location)
        s1 == IF existing # {}
              THEN delete_attribute_prototype_and_args(st, CHOOSE x \in existing : TRUE)
              ELSE st
    IN IF s1.err # "Ok" THEN s1
       ELSE [s1 EXCEPT !.g = add_edge_to_attribute_prototype(
                                 s1.g, location, attribute_prototype_id)]

RECURSIVE SetComponentPrototypes(_, _, _)
SetComponentPrototypes(g, attribute_value_ids_, attribute_prototype_id) ==
    IF attribute_value_ids_ = {} THEN g
    ELSE LET av == CHOOSE x \in attribute_value_ids_ : TRUE IN
         SetComponentPrototypes(set_component_prototype_id(g, av, attribute_prototype_id),
                                attribute_value_ids_ \ {av}, attribute_prototype_id)

\* Faulty variant: the values of the prop under every component are repointed.
UpsertPropComponent_EveryComponent(st, component_id, prop_id, attribute_prototype_id) ==
    [st EXCEPT !.g = SetComponentPrototypes(
                         st.g, {a \in AttributeValues : AvLocation[a] = prop_id},
                         attribute_prototype_id)]

\* Prop x Component: every value of the prop under the component.
UpsertPropComponent(st, component_id, prop_id, attribute_prototype_id) ==
    [st EXCEPT !.g = SetComponentPrototypes(
                         st.g, attribute_values_for_prop_id(component_id, prop_id),
                         attribute_prototype_id)]

\* OutputSocket x Component: the one value of the socket under the component.
UpsertOutputSocketComponent(st, component_id, output_socket_id, attribute_prototype_id) ==
    LET found == component_attribute_value_for_output_socket_id(
                     output_socket_id, component_id)
    IN IF found = {} THEN Fail(st, "AttributeValueNotFound")
       ELSE [st EXCEPT !.g = set_component_prototype_id(
                                 st.g, CHOOSE x \in found : TRUE, attribute_prototype_id)]

UpsertDestination(st, eventual_parent, output_location, attribute_prototype_id) ==
    IF eventual_parent.kind = "SchemaVariant"
    THEN UpsertSchemaVariantDefault(st, output_location, attribute_prototype_id)
    ELSE IF output_location \in Props
    THEN UpsertPropComponent(st, eventual_parent.id, output_location,
                             attribute_prototype_id)
    ELSE UpsertOutputSocketComponent(st, eventual_parent.id, output_location,
                                     attribute_prototype_id)

\* Faulty variant: the dependent values are enqueued before the new prototype is
\* attached to its destination.
upsert_attribute_binding_EnqueuesFirst(g, func_id, eventual_parent, output_location, prototype_arguments) ==
    LET checked == UpsertPrecondition(func_id, eventual_parent, output_location)
        parent == UpsertEventualParent(eventual_parent, output_location)
        attribute_prototype_id == g.next
        s0 == enqueue_dvu_for_impacted_values(Ctx(AttributePrototype_new(g, func_id)),
                                              attribute_prototype_id)
        s1 == UpsertDestination(s0, parent, output_location, attribute_prototype_id)
        s2 == CreateArguments(s1, attribute_prototype_id, prototype_arguments, 1)
    IN IF checked # "Ok" THEN Fail(Ctx(g), checked)
       ELSE IF s2.err # "Ok" THEN s2
       ELSE [s2 EXCEPT !.proto = attribute_prototype_id]

\* upsert_attribute_binding: the checks, the new prototype, its destination,
\* its arguments, the enqueue.
upsert_attribute_binding(g, func_id, eventual_parent, output_location, prototype_arguments) ==
    LET checked == UpsertPrecondition(func_id, eventual_parent, output_location)
        parent == UpsertEventualParent(eventual_parent, output_location)
        attribute_prototype_id == g.next
        s0 == Ctx(AttributePrototype_new(g, func_id))
        s1 == UpsertDestination(s0, parent, output_location, attribute_prototype_id)
        s2 == CreateArguments(s1, attribute_prototype_id, prototype_arguments, 1)
        s3 == enqueue_dvu_for_impacted_values(s2, attribute_prototype_id)
    IN IF checked # "Ok" THEN Fail(Ctx(g), checked)
       ELSE IF s3.err # "Ok" THEN s3
       ELSE [s3 EXCEPT !.proto = attribute_prototype_id]

----------------------------------------------------------------------------
\* find_output_location, lines 64-88: "Ok" or the error.
find_output_location(g, attribute_prototype_id) ==
    LET p == AttributePrototype_eventual_parent(g, attribute_prototype_id) IN
    IF p.kind = "Err" THEN "OrphanedPrototype"
    ELSE IF p.from = "AttributeValue"
    THEN LET av == CHOOSE a \in AttributeValues : <<a, attribute_prototype_id>> \in g.pedges
         IN IF AvLocation[av] \in Props THEN "Ok" ELSE "AttributeValueMissingProp"
    ELSE IF p.from = "InputSocket" THEN "MalformedInput"
    ELSE "Ok"

\* assemble_attribute_bindings, lines 134-163: the first prototype of the
\* function whose parent or output location does not resolve fails the call.
assemble_attribute_bindings(g, func_id) ==
    LET using == {p \in g.protos : g.func[p] = func_id}
        orphaned == {p \in using : find_eventual_parent(g, p).kind = "Err"}
        unlocated == {p \in using : find_output_location(g, p) # "Ok"}
    IN IF orphaned # {} THEN "OrphanedPrototype"
       ELSE IF unlocated # {}
       THEN find_output_location(g, CHOOSE p \in unlocated : TRUE)
       ELSE "Ok"

\* FuncBinding::for_func_id: the bindings of an attribute function are
\* assembled by assemble_attribute_bindings.
for_func_id(st, func_id) ==
    LET assembled == assemble_attribute_bindings(st.g, func_id) IN
    IF st.err # "Ok" THEN st
    ELSE IF func_id \in DOMAIN FuncKindOf /\ FuncKindOf[func_id] = "Attribute"
            /\ assembled # "Ok"
    THEN Fail(st, assembled)
    ELSE st

\* Faulty variant: the existing arguments are not removed first.
update_attribute_binding_arguments_KeepsOld(g, attribute_prototype_id, prototype_arguments) ==
    LET eventual_parent == find_eventual_parent(g, attribute_prototype_id)
        func_id == g.func[attribute_prototype_id]
        s2 == CreateArguments(Ctx(g), attribute_prototype_id, prototype_arguments, 1)
        s3 == enqueue_dvu_for_impacted_values(s2, attribute_prototype_id)
        s4 == for_func_id(s3, func_id)
    IN IF eventual_parent.kind = "Err" THEN Fail(Ctx(g), "OrphanedPrototype")
       ELSE IF error_if_locked(eventual_parent) THEN Fail(Ctx(g), "SchemaVariantLocked")
       ELSE IF s4.err # "Ok" THEN s4
       ELSE [s4 EXCEPT !.proto = attribute_prototype_id]

\* Faulty variant: the dependent values are enqueued before the arguments
\* are replaced.
update_attribute_binding_arguments_EnqueuesFirst(g, attribute_prototype_id, prototype_arguments) ==
    LET eventual_parent == find_eventual_parent(g, attribute_prototype_id)
        func_id == g.func[attribute_prototype_id]
        s0 == enqueue_dvu_for_impacted_values(Ctx(g), attribute_prototype_id)
        s1 == delete_attribute_prototype_args(s0, attribute_prototype_id)
        s2 == CreateArguments(s1, attribute_prototype_id, prototype_arguments, 1)
        s4 == for_func_id(s2, func_id)
    IN IF eventual_parent.kind = "Err" THEN Fail(Ctx(g), "OrphanedPrototype")
       ELSE IF error_if_locked(eventual_parent) THEN Fail(Ctx(g), "SchemaVariantLocked")
       ELSE IF s4.err # "Ok" THEN s4
       ELSE [s4 EXCEPT !.proto = attribute_prototype_id]

\* update_attribute_binding_arguments: the lock, the old arguments, the new
\* ones, the enqueue, the bindings of the function.
update_attribute_binding_arguments(g, attribute_prototype_id, prototype_arguments) ==
    LET eventual_parent == find_eventual_parent(g, attribute_prototype_id)
        func_id == g.func[attribute_prototype_id]
        s1 == delete_attribute_prototype_args(Ctx(g), attribute_prototype_id)
        s2 == CreateArguments(s1, attribute_prototype_id, prototype_arguments, 1)
        s3 == enqueue_dvu_for_impacted_values(s2, attribute_prototype_id)
        s4 == for_func_id(s3, func_id)
    IN IF eventual_parent.kind = "Err" THEN Fail(Ctx(g), "OrphanedPrototype")
       ELSE IF error_if_locked(eventual_parent) THEN Fail(Ctx(g), "SchemaVariantLocked")
       ELSE IF s4.err # "Ok" THEN s4
       ELSE [s4 EXCEPT !.proto = attribute_prototype_id]

\* AttributePrototype::attribute_value_id: the attribute values with a
\* component-level Prototype edge to the prototype (the call returns one).
AttributePrototype_attribute_value_id(g, id) ==
    {a \in AttributeValues : <<a, id>> \in g.pedges}

\* AttributeValue::use_default_prototype: drop the component-level override.
use_default_prototype(g, av) ==
    [g EXCEPT !.pedges = {e \in @ : e[1] # av}]

\* Func::find_intrinsic(IntrinsicFunc::Identity).
IdentityFunc == "fIdentity"

\* AttributePrototype::update_func_by_id.
update_func_by_id(g, id, func_id) ==
    [g EXCEPT !.func = [@ EXCEPT ![id] = func_id]]

\* Faulty variant: the schema-level default is deleted instead of being set to
\* the identity function.
reset_attribute_binding_DeletesDefault(g, attribute_prototype_id, attribute_value_id) ==
    LET eventual_parent == find_eventual_parent(g, attribute_prototype_id)
        s1 == IF attribute_value_id # ""
              THEN [Ctx(g) EXCEPT !.g = use_default_prototype(g, attribute_value_id)]
              ELSE delete_attribute_prototype_and_args(Ctx(g), attribute_prototype_id)
        s2 == enqueue_dvu_for_impacted_values(s1, attribute_prototype_id)
    IN IF eventual_parent.kind = "Err" THEN Fail(Ctx(g), "OrphanedPrototype")
       ELSE IF error_if_locked(eventual_parent) THEN Fail(Ctx(g), "SchemaVariantLocked")
       ELSE [s2 EXCEPT !.proto = attribute_prototype_id]

\* Faulty variant: an override is reset like a default, the attribute value keeps
\* its component-level prototype.
reset_attribute_binding_KeepsOverride(g, attribute_prototype_id, attribute_value_id) ==
    LET eventual_parent == find_eventual_parent(g, attribute_prototype_id)
        s1 == delete_attribute_prototype_args(
                  [Ctx(g) EXCEPT !.g = update_func_by_id(
                                           g, attribute_prototype_id, IdentityFunc)],
                  attribute_prototype_id)
        s2 == enqueue_dvu_for_impacted_values(s1, attribute_prototype_id)
    IN IF eventual_parent.kind = "Err" THEN Fail(Ctx(g), "OrphanedPrototype")
       ELSE IF error_if_locked(eventual_parent) THEN Fail(Ctx(g), "SchemaVariantLocked")
       ELSE [s2 EXCEPT !.proto = attribute_prototype_id]

\* Faulty variant: the lock of the eventual parent is not consulted.
reset_attribute_binding_NoLockCheck(g, attribute_prototype_id, attribute_value_id) ==
    LET eventual_parent == find_eventual_parent(g, attribute_prototype_id)
        s1 == IF attribute_value_id # ""
              THEN [Ctx(g) EXCEPT !.g = use_default_prototype(g, attribute_value_id)]
              ELSE delete_attribute_prototype_args(
                       [Ctx(g) EXCEPT !.g = update_func_by_id(
                                                g, attribute_prototype_id, IdentityFunc)],
                       attribute_prototype_id)
        s2 == enqueue_dvu_for_impacted_values(s1, attribute_prototype_id)
    IN IF eventual_parent.kind = "Err" THEN Fail(Ctx(g), "OrphanedPrototype")
       ELSE [s2 EXCEPT !.proto = attribute_prototype_id]

\* reset_attribute_binding; attribute_value_id is what
\* AttributePrototype::attribute_value_id returned ("" for None).
reset_attribute_binding(g, attribute_prototype_id, attribute_value_id) ==
    LET eventual_parent == find_eventual_parent(g, attribute_prototype_id)
        s1 == IF attribute_value_id # ""
              THEN [Ctx(g) EXCEPT !.g = use_default_prototype(g, attribute_value_id)]
              ELSE delete_attribute_prototype_args(
                       [Ctx(g) EXCEPT !.g = update_func_by_id(
                                                g, attribute_prototype_id, IdentityFunc)],
                       attribute_prototype_id)
        s2 == enqueue_dvu_for_impacted_values(s1, attribute_prototype_id)
    IN IF eventual_parent.kind = "Err" THEN Fail(Ctx(g), "OrphanedPrototype")
       ELSE IF error_if_locked(eventual_parent) THEN Fail(Ctx(g), "SchemaVariantLocked")
       ELSE [s2 EXCEPT !.proto = attribute_prototype_id]

----------------------------------------------------------------------------
\* assemble_eventual_parent and assemble_attribute_output_location: what a
\* handler makes of the optional ids of a request ("" is None).

None == ""
Pending == [err |-> "Pending", value |-> None]
Assembled(value) == [err |-> "Ok", value |-> value]
MalformedInput == [err |-> "MalformedInput", value |-> None]

\* Component::schema_variant_id.
Component_schema_variant_id(component_id) == ComponentVariant[component_id]

\* Faulty variant: with both ids supplied and matching, the component is kept.
assemble_eventual_parent_ComponentWins(component_id, schema_variant_id) ==
    IF component_id = None /\ schema_variant_id = None
    THEN Assembled(NoEventualParent)
    ELSE IF component_id = None
    THEN Assembled(EventualParentSchemaVariant(schema_variant_id))
    ELSE IF schema_variant_id = None
    THEN Assembled(EventualParentComponent(component_id))
    ELSE IF Component_schema_variant_id(component_id) = schema_variant_id
    THEN Assembled(EventualParentComponent(component_id))
    ELSE MalformedInput

\* assemble_eventual_parent, lines 90-114.
assemble_eventual_parent(component_id, schema_variant_id) ==
    IF component_id = None /\ schema_variant_id = None
    THEN Assembled(NoEventualParent)
    ELSE IF component_id = None
    THEN Assembled(EventualParentSchemaVariant(schema_variant_id))
    ELSE IF schema_variant_id = None
    THEN Assembled(EventualParentComponent(component_id))
    ELSE IF Component_schema_variant_id(component_id) = schema_variant_id
    THEN Assembled(EventualParentSchemaVariant(schema_variant_id))
    ELSE MalformedInput

\* Faulty variant: with both ids supplied the prop is taken.
assemble_attribute_output_location_PropWins(prop_id, output_socket_id) ==
    IF prop_id # None THEN Assembled(prop_id)
    ELSE IF output_socket_id # None THEN Assembled(output_socket_id)
    ELSE MalformedInput

\* assemble_attribute_output_location, lines 115-132.
assemble_attribute_output_location(prop_id, output_socket_id) ==
    IF prop_id = None /\ output_socket_id # None THEN Assembled(output_socket_id)
    ELSE IF prop_id # None /\ output_socket_id = None THEN Assembled(prop_id)
    ELSE MalformedInput

\* The optional ids a request may carry.
Requests ==
    [component_id : Components \cup {None},
     schema_variant_id : SchemaVariants \cup {None},
     prop_id : Props \cup {None},
     output_socket_id : OutputSockets \cup {None}]
NoRequest ==
    [component_id |-> None, schema_variant_id |-> None,
     prop_id |-> None, output_socket_id |-> None]
NotAssembled == [eventual_parent |-> Pending, output_location |-> Pending]

\* No request is being assembled.
AssembleIdle == request = NoRequest /\ assembly = NotAssembled

----------------------------------------------------------------------------
\* Views and change sets.  A snapshot holds the views, the components and
\* the geometries <<component, view>> that place a component in a view, and
\* for every view the content of its node (None for a view that is not there).

DefaultView == "default"
ViewIds == {"view1", "view2"}
ComponentIds == {"comp1", "comp2"}
ChangeSetIds == 1..MaxChangeSets
AllViews == {DefaultView} \cup ViewIds

\* The content a view node is created with, and the contents it can be given.
NewContent == "content0"
Contents == {"content1", "content2"}

\* The workspace as created: the default view and nothing in it.
InitialSnapshot ==
    [views |-> {DefaultView}, components |-> {}, geometries |-> {},
     contents |-> [v \in AllViews |-> IF v = DefaultView THEN NewContent ELSE None]]

\* View::list and Geometry::list_by_view_id.
View_list(s) == s.views
Geometry_list_by_view_id(s, view_id) == {g \in s.geometries : g[2] = view_id}

\* ExpectView::create (View::new).
View_new(s, view_id) ==
    [s EXCEPT !.views = @ \cup {view_id}, !.contents[view_id] = NewContent]

\* upsert_content on a view node: the node gets a new content.
upsert_content(s, view_id, content) == [s EXCEPT !.contents[view_id] = content]

\* create_component_for_default_schema_name: the component and its
\* geometry in the view.
Component_new(s, component_id, view_id) ==
    [s EXCEPT !.components = @ \cup {component_id},
              !.geometries = @ \cup {<<component_id, view_id>>}]

\* Component::remove: the component goes with its geometries.
Component_remove(s, component_id) ==
    [s EXCEPT !.components = @ \ {component_id},
              !.geometries = {g \in @ : g[1] # component_id}]

\* View::remove: removing a view that is no longer there changes nothing;
\* the components the view held fall back to the default view.
View_remove(s, view_id) ==
    IF view_id \notin s.views THEN s
    ELSE [s EXCEPT !.views = @ \ {view_id},
                   !.contents[view_id] = None,
                   !.geometries = {IF g[2] = view_id THEN <<g[1], DefaultView>> ELSE g :
                                      g \in @}]

\* What a change set did since its fork point.
Updates(fork_point, ours) ==
    [removed_views |-> fork_point.views \ ours.views,
     added_views |-> ours.views \ fork_point.views,
     removed_components |-> fork_point.components \ ours.components,
     added_components |-> ours.components \ fork_point.components,
     removed_geometries |-> fork_point.geometries \ ours.geometries,
     added_geometries |-> ours.geometries \ fork_point.geometries]

\* The nodes both sides gave a new content since the fork point, with the
\* content each side gave them.  Contents are compared by hash: two sides
\* that gave a node the same content made the same change, not a conflict.
Conflicts(fork_point, ours, theirs) ==
    {[node |-> v, ours |-> ours.contents[v], theirs |-> theirs.contents[v]] :
        v \in {w \in fork_point.views \cap ours.views \cap theirs.views :
                  /\ ours.contents[w] # fork_point.contents[w]
                  /\ theirs.contents[w] # fork_point.contents[w]
                  /\ ours.contents[w] # theirs.contents[w]}}

\* The contents of the merge result: a node touched by the change set alone
\* (created, or given a new content) has the change set's content, every
\* other node the content the parent has.
MergedContents(fork_point, ours, theirs, views) ==
    [v \in AllViews |->
        IF v \notin views THEN None
        ELSE IF v \in ours.views /\ ours.contents[v] # fork_point.contents[v]
             THEN ours.contents[v]
             ELSE theirs.contents[v]]

\* Faulty variant: the removal of a view always goes through.
ViewRemovalDropped_Never(updates, theirs, view_id) == FALSE

\* Faulty variant: only the geometries the change set itself added are looked at.
ViewRemovalDropped_OwnGeometries(updates, theirs, view_id) ==
    \E g \in updates.added_geometries : g[2] = view_id

\* The removal of a view is dropped when the graph it is applied to holds a
\* geometry in that view that the change set does not remove as well.
ViewRemovalDropped(updates, theirs, view_id) ==
    \E g \in theirs.geometries \ updates.removed_geometries : g[2] = view_id

\* Faulty variant: removing a view the other side has removed already is an error.
Rebase_FailsOnRemoved(fork_point, ours, theirs) ==
    LET updates == Updates(fork_point, ours) IN
    IF updates.removed_views \ theirs.views # {}
    THEN [err |-> "NodeNotFound", graph |-> theirs, conflicts |-> {}]
    ELSE [err |-> "Ok", conflicts |-> {},
          graph |-> [views |-> (theirs.views \ updates.removed_views)
                                   \cup updates.added_views,
                     components |-> (theirs.components \ updates.removed_components)
                                        \cup updates.added_components,
                     geometries |-> (theirs.geometries \ updates.removed_geometries)
                                        \cup updates.added_geometries,
                     contents |-> MergedContents(fork_point, ours, theirs,
                                           (theirs.views \ updates.removed_views)
                                               \cup updates.added_views)]]

\* Faulty variant: the geometries of a component the change set removed are put
\* into the default view.
Rebase_AnchorsRemoved(fork_point, ours, theirs) ==
    LET updates == Updates(fork_point, ours)
        views == (theirs.views \ updates.removed_views) \cup updates.added_views
        components == (theirs.components \ updates.removed_components)
                          \cup updates.added_components
    IN [err |-> "Ok", conflicts |-> {},
        graph |-> [views |-> views, components |-> components,
                   geometries |->
                       {<<g[1], IF g[2] \in views THEN g[2] ELSE DefaultView>> :
                           g \in theirs.geometries \cup updates.added_geometries},
                   contents |-> MergedContents(fork_point, ours, theirs, views)]]

\* Faulty variant: when both sides gave a node a new content the change
\* set's content is taken and no conflict is reported.
Rebase_OursWins(fork_point, ours, theirs) ==
    LET updates == Updates(fork_point, ours)
        removed_views == {v \in updates.removed_views :
                             ~ViewRemovalDropped(updates, theirs, v)}
        views == (theirs.views \ removed_views) \cup updates.added_views
        components == (theirs.components \ updates.removed_components)
                          \cup updates.added_components
        geometries == {g \in (theirs.geometries \ updates.removed_geometries)
                                 \cup updates.added_geometries : g[1] \in components}
    IN [err |-> "Ok", conflicts |-> {},
        graph |-> [views |-> views, components |-> components,
                   geometries |->
                       {<<g[1], IF g[2] \in views THEN g[2] ELSE DefaultView>> :
                           g \in geometries},
                   contents |-> MergedContents(fork_point, ours, theirs, views)]]

\* The rebase of a change set onto its parent: the updates of the change
\* set since its fork point, applied to the parent's current graph.  A
\* removal of what is already removed changes nothing; a geometry whose
\* view is gone falls back to the default view.  When both sides gave a
\* node a new content the rebase stops with the conflicts and no graph of
\* its own.
Rebase(fork_point, ours, theirs) ==
    LET updates == Updates(fork_point, ours)
        conflicts == Conflicts(fork_point, ours, theirs)
        removed_views == {v \in updates.removed_views :
                             ~ViewRemovalDropped(updates, theirs, v)}
        views == (theirs.views \ removed_views) \cup updates.added_views
        components == (theirs.components \ updates.removed_components)
                          \cup updates.added_components
        geometries == {g \in (theirs.geometries \ updates.removed_geometries)
                                 \cup updates.added_geometries : g[1] \in components}
    IN IF conflicts # {}
       THEN [err |-> "Conflict", graph |-> theirs, conflicts |-> conflicts]
       ELSE [err |-> "Ok", conflicts |-> {},
             graph |-> [views |-> views, components |-> components,
                        geometries |->
                            {<<g[1], IF g[2] \in views THEN g[2] ELSE DefaultView>> :
                                g \in geometries},
                        contents |-> MergedContents(fork_point, ours, theirs, views)]]

\* A change set: Unused until it is forked, then Open, then Applied.
UnusedChangeSet ==
    [status |-> "Unused", snapshot |-> InitialSnapshot, fork_point |-> InitialSnapshot]
\* The record of the last operation: the change set it ran in and the status
\* that change set had (was), the graph the operation started from (before),
\* its outcome, and for a fork the change set whose apply came right before
\* it (after, 0 when the fork did not follow an apply).
NoOperation ==
    [op |-> "none", change_set |-> 0, id |-> None, before |-> InitialSnapshot,
     err |-> "Ok", was |-> "", after |-> 0, conflicts |-> {}]

\* The workspace as created, with no change set forked yet.
ViewIdle ==
    /\ base = InitialSnapshot
    /\ change_sets = [cs \in ChangeSetIds |-> UnusedChangeSet]
    /\ minted = {}
    /\ last = NoOperation

\* The binding subsystem at rest on the initial graph, nothing locked.
BindingIdle ==
    /\ graph = InitialGraph
    /\ locked = {}
    /\ pre_graph = InitialGraph
    /\ call = [op |-> "none", func_id |-> "", eventual_parent |-> NoEventualParent,
               output_location |-> "", prototype_arguments |-> <<>>,
               attribute_prototype_id |-> 0, attribute_value_id |-> ""]
    /\ result = [err |-> "Ok", proto |-> 0, enq |-> <<>>]
    /\ ncalls = 0

----------------------------------------------------------------------------
\* Handlers and the job runner.  A handler serves a request in a transaction
\* of its own: it changes the graph, asks for the dependent values update of
\* the attribute values its change touched, and commits.  The jobs record
\* holds the <<transaction, attribute value>> pairs waiting in the context
\* (queue) and those the job runner has received (runner).

TransactionIds == 1..MaxHandlers
HandlerKinds == {"create_connection", "binding"}

\* Faulty variant: the job is sent to the job runner when it is enqueued.
enqueue_job_SendsAtOnce(q, transaction, attribute_value_ids_) ==
    [q EXCEPT !.runner = @ \cup {<<transaction, a>> : a \in attribute_value_ids_}]

\* DalContext::enqueue_job and add_dependent_values_and_enqueue: the job
\* waits in the context of the transaction.
enqueue_job(q, transaction, attribute_value_ids_) ==
    [q EXCEPT !.queue = @ \cup {<<transaction, a>> : a \in attribute_value_ids_}]

\* The jobs waiting in the context go to the job runner (after the commit).
process_queue(q) == [queue |-> {}, runner |-> q.runner \cup q.queue]

\* A transaction that ends without its commit takes its waiting jobs along.
rollback(q) == [q EXCEPT !.queue = {}]

\* The attribute values a handler asks the update for: create_connection
\* the one of the tail socket, a binding operation those its prototype
\* controls.
ImpactedValues(kind) ==
    IF kind = "create_connection" THEN {{a} : a \in AttributeValues}
    ELSE {attribute_value_ids(InitialGraph, id) : id \in InitialPrototypes}

NoHandler == [pc |-> "idle", kind |-> "", transaction |-> 0, impacted |-> {}]
NoJobs == [queue |-> {}, runner |-> {}]

HandlerIdle ==
    /\ handler = NoHandler
    /\ jobs = NoJobs
    /\ committed = {}

----------------------------------------------------------------------------
\* Dependent values propagation.  An edge <<a, b>> says that the prototype
\* of value b takes an argument from value a.  A run walks the edges forward
\* from its roots to find the closure, then recomputes the closure in an
\* order in which every value comes after its sources.

DvuValues == {"a1", "a2", "a3"}
Edges == DvuValues \X DvuValues

\* The values whose prototype takes an argument from v.
DirectDependents(deps, v) == {e[2] : e \in {x \in deps : x[1] = v}}
\* The values the prototype of v takes its arguments from.
DirectSources(deps, v) == {e[1] : e \in {x \in deps : x[2] = v}}

\* The values reached from a set of values over one edge or more.
RECURSIVE Descendants(_, _, _)
Descendants(deps, from, found) ==
    LET next == UNION {DirectDependents(deps, v) : v \in from} \ found IN
    IF next = {} THEN found ELSE Descendants(deps, next, found \cup next)

\* A value that takes an argument, directly or over other values, from itself.
OnCycle(deps) == {v \in DvuValues : v \in Descendants(deps, {v}, {})}

\* Faulty variant: the dependents of a value found on the way are not walked.
Walked_RootsOnly(d, deps, v) ==
    [d EXCEPT !.closure = @ \cup DirectDependents(deps, v),
              !.frontier = @ \ {v}]

\* One step of the walk: value v of the frontier is done, its dependents
\* join the closure, and those not seen before join the frontier.
Walked(d, deps, v) ==
    [d EXCEPT !.closure = @ \cup DirectDependents(deps, v),
              !.frontier = (@ \ {v}) \cup (DirectDependents(deps, v) \ d.closure)]

Range(seq) == {seq[i] : i \in DOMAIN seq}

\* Faulty variant: any value of the closure not recomputed yet may be next.
Ready_Any(d, deps, v) == v \in d.closure \ Range(d.recomputed)

\* A value may be recomputed once all its sources in the closure are.
Ready(d, deps, v) ==
    /\ v \in d.closure \ Range(d.recomputed)
    /\ DirectSources(deps, v) \cap d.closure \subseteq Range(d.recomputed)

NoRun == [pc |-> "idle", closure |-> {}, frontier |-> {}, recomputed |-> <<>>]

PropagationIdle ==
    /\ dependencies = {}
    /\ roots = {}
    /\ dvu = NoRun

----------------------------------------------------------------------------
\* compile_attribute_types, lines 471-529: the TypeScript types of the
\* arguments and of the output of an attribute function, gathered over the
\* bindings of the function.  The descriptors are kept as the lists the code
\* joins with " | ".

\* Prop::ts_type.
PropTsType == "p1" :> "string" @@ "p2" :> "number"

\* The ids of a set in ascending order.
RECURSIVE Ascending(_)
Ascending(ids) ==
    IF ids = {} THEN <<>>
    ELSE LET least == CHOOSE i \in ids : \A j \in ids : i <= j
         IN <<least>> \o Ascending(ids \ {least})

\* The output location find_output_location returns for a prototype.
OutputLocationOf(g, attribute_prototype_id) ==
    LET s == CHOOSE x \in PrototypeSources \cup AttributeValues :
                 <<x, attribute_prototype_id>> \in g.pedges
    IN IF s \in AttributeValues THEN AvLocation[s] ELSE s

\* Lines 501-510: the type of a prop destination, "any" for any other.
OutputType(output_location) ==
    IF output_location \in Props THEN PropTsType[output_location] ELSE "any"

\* Faulty variant: a type is listed every time it is seen.
PushUnique_Always(types, ts_type) == Append(types, ts_type)

\* `if !v.contains(&t) { v.push(t) }`, lines 489-499 and 511-513.
PushUnique(types, ts_type) ==
    IF ts_type \in Range(types) THEN types ELSE Append(types, ts_type)

\* Lines 482-514, the body of `for arg in attribute.argument_bindings`: the
\* type of a prop source is noted for the argument, and the type of the
\* binding's output location is noted for the output.
CompileArgument(acc, g, arg, output_location) ==
    LET src == arg.source IN
    [acc EXCEPT
        !.input = IF src.kind = "Prop"
                  THEN [@ EXCEPT ![arg.func_argument_id] =
                           PushUnique(@, PropTsType[src.value])]
                  ELSE @,
        !.output = PushUnique(@, OutputType(output_location))]

RECURSIVE CompileArguments(_, _, _, _, _)
CompileArguments(acc, g, apas, i, output_location) ==
    IF i > Len(apas) THEN acc
    ELSE LET arg == CHOOSE a \in g.args : a.id = apas[i] IN
         CompileArguments(CompileArgument(acc, g, arg, output_location),
                          g, apas, i + 1, output_location)

\* Lines 480-516, `for binding in bindings`.
RECURSIVE CompileBindings(_, _, _, _)
CompileBindings(acc, g, prototypes, i) ==
    IF i > Len(prototypes) THEN acc
    ELSE CompileBindings(
             CompileArguments(acc, g,
                              Ascending({a.id : a \in {x \in g.args :
                                                          x.proto = prototypes[i]}}),
                              1, OutputLocationOf(g, prototypes[i])),
             g, prototypes, i + 1)

NothingCompiled ==
    [err |-> "Pending", input |-> [a \in FuncArguments |-> <<>>], output |-> <<>>]

compile_attribute_types(g, func_id) ==
    LET assembled == assemble_attribute_bindings(g, func_id)
        bindings == Ascending({p \in g.protos : g.func[p] = func_id})
        types == CompileBindings(NothingCompiled, g, bindings, 1)
    IN IF assembled # "Ok" THEN [NothingCompiled EXCEPT !.err = assembled]
       ELSE [types EXCEPT !.err = "Ok"]

CompileIdle == compiled = NothingCompiled

----------------------------------------------------------------------------
\* crypto.rs.  Keys, nonces and messages are names; blake3 gives every key
\* a hash of its own; a sealed box is the record of what was sealed, under
\* which nonce and key, and only that nonce and key open it.

Keys == {"K1", "K2"}
Messages == {"m1", "m2"}
Nonces == {"n1", "n2"}

\* blake3::hash(key.0.as_ref()).as_bytes().
blake3_hash(key) == ("K1" :> "H1" @@ "K2" :> "H2")[key]
\* The hashes a caller may pass: those of the keys and one of no key.
Hashes == {"H1", "H2", "H0"}

\* secretbox::seal and secretbox::open.
seal(message, nonce, key) == [message |-> message, nonce |-> nonce, key |-> key]
open(ciphertext, nonce, key) ==
    IF ciphertext.nonce = nonce /\ ciphertext.key = key
    THEN [ok |-> TRUE, message |-> ciphertext.message]
    ELSE [ok |-> FALSE, message |-> None]

\* Bytes that are the box of no key.
Forged == [message |-> "m1", nonce |-> "n1", key |-> "none"]
NoBox == [message |-> None, nonce |-> None, key |-> None]

\* HashMap::insert.
insert(map, k, v) == [x \in DOMAIN map \cup {k} |-> IF x = k THEN v ELSE map[x]]
EmptyMap == [x \in {} |-> None]

\* Lines 92-94 of new: `for key in extra_keys { map.insert(..) }`.
RECURSIVE InsertExtraKeys(_, _, _)
InsertExtraKeys(map, extra_keys, i) ==
    IF i > Len(extra_keys) THEN map
    ELSE InsertExtraKeys(insert(map, blake3_hash(extra_keys[i]), extra_keys[i]),
                         extra_keys, i + 1)

\* Faulty variant: the map of a service with extra keys holds only those.
new_ExtraKeysOnly(active_key, extra_keys) ==
    LET active_key_hash == blake3_hash(active_key)
        map == IF extra_keys = <<>>
               THEN insert(EmptyMap, active_key_hash, active_key)
               ELSE EmptyMap
    IN [built |-> TRUE,
        donkeys |-> InsertExtraKeys(map, extra_keys, 1),
        active_key_hash |-> active_key_hash]

\* SymmetricCryptoService::new, lines 85-100.
new(active_key, extra_keys) ==
    LET active_key_hash == blake3_hash(active_key)
        map == insert(EmptyMap, active_key_hash, active_key)
    IN [built |-> TRUE,
        donkeys |-> InsertExtraKeys(map, extra_keys, 1),
        active_key_hash |-> active_key_hash]

\* Faulty variant: the nonce returned is not the one the box was sealed with.
encrypt_ReturnsOtherNonce(service, message, nonce) ==
    IF service.active_key_hash \notin DOMAIN service.donkeys
    THEN [err |-> "panic", ciphertext |-> NoBox, nonce |-> nonce, key_hash |-> None]
    ELSE [err |-> "Ok",
          ciphertext |-> seal(message, nonce, service.donkeys[service.active_key_hash]),
          nonce |-> CHOOSE n \in Nonces : n # nonce,
          key_hash |-> service.active_key_hash]

\* SymmetricCryptoService::encrypt, lines 106-118; the nonce is the one
\* secretbox::gen_nonce returns.
encrypt(service, message, nonce) ==
    IF service.active_key_hash \notin DOMAIN service.donkeys
    THEN [err |-> "panic", ciphertext |-> NoBox, nonce |-> nonce, key_hash |-> None]
    ELSE [err |-> "Ok",
          ciphertext |-> seal(message, nonce, service.donkeys[service.active_key_hash]),
          nonce |-> nonce,
          key_hash |-> service.active_key_hash]

\* Faulty variant: only the active key is used to decrypt.
decrypt_ActiveKeyOnly(service, ciphertext, nonce, key_hash) ==
    IF key_hash # service.active_key_hash
    THEN [err |-> "MissingDonkeyForHash", message |-> None]
    ELSE LET opened == open(ciphertext, nonce, service.donkeys[key_hash]) IN
         IF opened.ok THEN [err |-> "Ok", message |-> opened.message]
         ELSE [err |-> "DecryptionFailed", message |-> None]

\* Faulty variant: a hash that has no key is reported as a failed opening.
decrypt_FailsOnMissingKey(service, ciphertext, nonce, key_hash) ==
    IF key_hash \notin DOMAIN service.donkeys
    THEN [err |-> "DecryptionFailed", message |-> None]
    ELSE LET opened == open(ciphertext, nonce, service.donkeys[key_hash]) IN
         IF opened.ok THEN [err |-> "Ok", message |-> opened.message]
         ELSE [err |-> "DecryptionFailed", message |-> None]

\* SymmetricCryptoService::decrypt, lines 120-132.
decrypt(service, ciphertext, nonce, key_hash) ==
    IF key_hash \notin DOMAIN service.donkeys
    THEN [err |-> "MissingDonkeyForHash", message |-> None]
    ELSE LET opened == open(ciphertext, nonce, service.donkeys[key_hash]) IN
         IF opened.ok THEN [err |-> "Ok", message |-> opened.message]
         ELSE [err |-> "DecryptionFailed", message |-> None]

ServiceIds == 1..MaxServices
NoService == [built |-> FALSE, donkeys |-> EmptyMap, active_key_hash |-> None]
NoCrypto ==
    [op |-> "none", service |-> 0, err |-> "Ok", message |-> None,
     ciphertext |-> NoBox, nonce |-> None, key_hash |-> None]

CryptoIdle ==
    /\ services = [i \in ServiceIds |-> NoService]
    /\ sealed = {}
    /\ crypto = NoCrypto

----------------------------------------------------------------------------
\* content_info.rs.  A string is the sequence of its characters; a word
\* that holds no digit and no sign is one character of it.

NATS_HEADER_CONTENT_TYPE_NAME == "X-CONTENT-TYPE"
NATS_HEADER_MESSAGE_TYPE_NAME == "X-MESSAGE-TYPE"
NATS_HEADER_MESSAGE_VERSION_NAME == "X-MESSAGE-VERSION"
HeaderNames ==
    {NATS_HEADER_CONTENT_TYPE_NAME, NATS_HEADER_MESSAGE_TYPE_NAME,
     NATS_HEADER_MESSAGE_VERSION_NAME}

Digits == {"0", "1", "2", "3", "4", "5", "6", "7", "8", "9"}
DigitValue ==
    "0" :> 0 @@ "1" :> 1 @@ "2" :> 2 @@ "3" :> 3 @@ "4" :> 4 @@
    "5" :> 5 @@ "6" :> 6 @@ "7" :> 7 @@ "8" :> 8 @@ "9" :> 9
DigitOf == <<"0", "1", "2", "3", "4", "5", "6", "7", "8", "9">>

\* Display for MessageVersion, lines 157-161: the decimal digits of the u64.
RECURSIVE to_string(_)
to_string(n) ==
    IF n < 10 THEN <<DigitOf[n + 1]>>
    ELSE Append(to_string(n \div 10), DigitOf[(n % 10) + 1])

\* The value of a sequence of digits.
RECURSIVE DecimalValue(_)
DecimalValue(digits) ==
    IF digits = <<>> THEN 0
    ELSE 10 * DecimalValue(SubSeq(digits, 1, Len(digits) - 1))
         + DigitValue[digits[Len(digits)]]

\* FromStr for MessageVersion, lines 169-175: u64::from_str.  The empty
\* string and a lone sign are errors, one leading "+" is skipped, and every
\* other character must be a digit.  The strings of the model are too
\* short to exceed u64::MAX.
from_str(str) ==
    LET digits == IF str # <<>> /\ Head(str) = "+" THEN Tail(str) ELSE str IN
    IF digits = <<>> \/ \E i \in 1..Len(digits) : digits[i] \notin Digits
    THEN [ok |-> FALSE, value |-> 0]
    ELSE [ok |-> TRUE, value |-> DecimalValue(digits)]

\* HeaderMap::get: the first value held under the name.
headers_get(map, name) ==
    IF name \in DOMAIN map /\ map[name] # <<>>
    THEN [some |-> TRUE, value |-> map[name][1]]
    ELSE [some |-> FALSE, value |-> <<>>]

\* Faulty variant: the value is added after those the name already holds.
headers_insert_Appends(map, name, value) ==
    [x \in DOMAIN map \cup {name} |->
        IF x # name THEN map[x]
        ELSE IF name \in DOMAIN map THEN Append(map[name], value) ELSE <<value>>]

\* HeaderMap::insert: the value becomes the only one held under the name.
headers_insert(map, name, value) ==
    [x \in DOMAIN map \cup {name} |-> IF x = name THEN <<value>> ELSE map[x]]

\* ContentInfo::inject_into_headers, lines 32-39.
inject_into_headers(self, map) ==
    headers_insert(
        headers_insert(
            headers_insert(map, NATS_HEADER_CONTENT_TYPE_NAME, self.content_type),
            NATS_HEADER_MESSAGE_TYPE_NAME, self.message_type),
        NATS_HEADER_MESSAGE_VERSION_NAME, to_string(self.message_version))

NoInfo == [content_type |-> <<>>, message_type |-> <<>>, message_version |-> 0]
MissingHeader(name) == [err |-> "MissingHeader", name |-> name, info |-> NoInfo]
ParseVersion == [err |-> "ParseVersion", name |-> None, info |-> NoInfo]

\* Faulty variant: a message without a version header is of version 0.
try_from_DefaultsVersion(map) ==
    LET content_type == headers_get(map, NATS_HEADER_CONTENT_TYPE_NAME)
        message_type == headers_get(map, NATS_HEADER_MESSAGE_TYPE_NAME)
        version_header == headers_get(map, NATS_HEADER_MESSAGE_VERSION_NAME)
        message_version ==
            IF version_header.some THEN from_str(version_header.value)
            ELSE [ok |-> TRUE, value |-> 0]
    IN IF ~content_type.some THEN MissingHeader(NATS_HEADER_CONTENT_TYPE_NAME)
       ELSE IF ~message_type.some THEN MissingHeader(NATS_HEADER_MESSAGE_TYPE_NAME)
       ELSE IF ~message_version.ok THEN ParseVersion
       ELSE [err |-> "Ok", name |-> None,
             info |-> [content_type |-> content_type.value,
                       message_type |-> message_type.value,
                       message_version |-> message_version.value]]

\* TryFrom<&HeaderMap> for ContentInfo, lines 45-63.
try_from(map) ==
    LET content_type == headers_get(map, NATS_HEADER_CONTENT_TYPE_NAME)
        message_type == headers_get(map, NATS_HEADER_MESSAGE_TYPE_NAME)
        version_header == headers_get(map, NATS_HEADER_MESSAGE_VERSION_NAME)
        message_version == from_str(version_header.value)
    IN IF ~content_type.some THEN MissingHeader(NATS_HEADER_CONTENT_TYPE_NAME)
       ELSE IF ~message_type.some THEN MissingHeader(NATS_HEADER_MESSAGE_TYPE_NAME)
       ELSE IF ~version_header.some
            THEN MissingHeader(NATS_HEADER_MESSAGE_VERSION_NAME)
       ELSE IF ~message_version.ok THEN ParseVersion
       ELSE [err |-> "Ok", name |-> None,
             info |-> [content_type |-> content_type.value,
                       message_type |-> message_type.value,
                       message_version |-> message_version.value]]

EmptyHeaders == [x \in {} |-> <<>>]
NotInjected == [set |-> FALSE, info |-> NoInfo, before |-> EmptyHeaders]
NotParsed == [op |-> "none", err |-> "Ok", name |-> None, info |-> NoInfo]

HeaderIdle ==
    /\ headers = EmptyHeaders
    /\ injected = NotInjected
    /\ parsed = NotParsed

\* The subsystems that follow the views, at rest.
RestIdle ==
    HandlerIdle /\ PropagationIdle /\ CompileIdle /\ CryptoIdle /\ HeaderIdle

----------------------------------------------------------------------------
\* The state machine.  A handler calls one binding operation on the graph
\* of its change set (Upsert, UpdateArguments, Reset, Delete), which records
\* what it was called with and what it did; Return hands the outcome to the
\* caller, after which the next operation may be called.

NoCall ==
    [op |-> "none", func_id |-> "", eventual_parent |-> NoEventualParent,
     output_location |-> "", prototype_arguments |-> <<>>,
     attribute_prototype_id |-> 0, attribute_value_id |-> ""]

Outcome(st) == [err |-> st.err, proto |-> st.proto, enq |-> st.enq]

\* Ids a request may name as a prototype: every node id handed out so far.
KnownIds == 1..(graph.next - 1)

Init ==
    /\ graph = InitialGraph
    /\ locked \in SUBSET SchemaVariants
    /\ pre_graph = InitialGraph
    /\ call = NoCall
    /\ result = Outcome(Ctx(InitialGraph))
    /\ ncalls = 0
    /\ AssembleIdle
    /\ ViewIdle
    /\ RestIdle

Upsert ==
    \E func_id \in FuncIds, eventual_parent \in EventualParents \cup {NoEventualParent},
       output_location \in AttributeFuncDestinations,
       prototype_arguments \in ArgumentLists :
        /\ call.op = "none"
        /\ ncalls < MaxCalls
        /\ ncalls' = ncalls + 1
        /\ LET st == upsert_attribute_binding(graph, func_id, eventual_parent,
                                              output_location, prototype_arguments)
           IN /\ graph' = st.g
              /\ result' = Outcome(st)
        /\ pre_graph' = graph
        /\ call' = [NoCall EXCEPT !.op = "upsert_attribute_binding",
                                  !.func_id = func_id,
                                  !.eventual_parent = eventual_parent,
                                  !.output_location = output_location,
                                  !.prototype_arguments = prototype_arguments]
        /\ UNCHANGED <<locked, assemble_vars, view_vars, rest_vars>>

UpdateArguments ==
    \E attribute_prototype_id \in KnownIds, prototype_arguments \in ArgumentLists :
        /\ call.op = "none"
        /\ ncalls < MaxCalls
        /\ ncalls' = ncalls + 1
        /\ LET st == update_attribute_binding_arguments(
                         graph, attribute_prototype_id, prototype_arguments)
           IN /\ graph' = st.g
              /\ result' = Outcome(st)
        /\ pre_graph' = graph
        /\ call' = [NoCall EXCEPT !.op = "update_attribute_binding_arguments",
                                  !.attribute_prototype_id = attribute_prototype_id,
                                  !.prototype_arguments = prototype_arguments]
        /\ UNCHANGED <<locked, assemble_vars, view_vars, rest_vars>>

Reset ==
    \E attribute_prototype_id \in KnownIds :
      \E attribute_value_id \in
            IF AttributePrototype_attribute_value_id(graph, attribute_prototype_id) = {}
            THEN {""}
            ELSE AttributePrototype_attribute_value_id(graph, attribute_prototype_id) :
        /\ call.op = "none"
        /\ ncalls < MaxCalls
        /\ ncalls' = ncalls + 1
        /\ LET st == reset_attribute_binding(graph, attribute_prototype_id,
                                             attribute_value_id)
           IN /\ graph' = st.g
              /\ result' = Outcome(st)
        /\ pre_graph' = graph
        /\ call' = [NoCall EXCEPT !.op = "reset_attribute_binding",
                                  !.attribute_prototype_id = attribute_prototype_id,
                                  !.attribute_value_id = attribute_value_id]
        /\ UNCHANGED <<locked, assemble_vars, view_vars, rest_vars>>

Delete ==
    \E attribute_prototype_id \in KnownIds :
        /\ call.op = "none"
        /\ ncalls < MaxCalls
        /\ ncalls' = ncalls + 1
        /\ LET st == delete_attribute_prototype_and_args(Ctx(graph), attribute_prototype_id)
           IN /\ graph' = st.g
              /\ result' = Outcome(st)
        /\ pre_graph' = graph
        /\ call' = [NoCall EXCEPT !.op = "delete_attribute_prototype_and_args",
                                  !.attribute_prototype_id = attribute_prototype_id]
        /\ UNCHANGED <<locked, assemble_vars, view_vars, rest_vars>>

Return ==
    /\ call.op # "none"
    /\ call' = NoCall
    /\ pre_graph' = graph
    /\ result' = Outcome(Ctx(graph))
    /\ UNCHANGED <<graph, locked, ncalls, assemble_vars, view_vars, rest_vars>>

Next == Upsert \/ UpdateArguments \/ Reset \/ Delete \/ Return

Spec == Init /\ [][Next]_vars
----------------------------------------------------------------------------
\* What the last call was, and what it came to.

UpsertCalled == call.op = "upsert_attribute_binding"
UpdateCalled == call.op = "update_attribute_binding_arguments"
Succeeded == result.err = "Ok"

\* The eventual parent upsert_attribute_binding worked with: the one
\* supplied, or the schema variant of the output location.
ResolvedParent == UpsertEventualParent(call.eventual_parent, call.output_location)
ResolvedParentLocked ==
    ResolvedParent.kind = "SchemaVariant" /\ ResolvedParent.id \in locked

\* The attribute values an enqueue call of the last operation named.
Enqueued == UNION {result.enq[i] : i \in DOMAIN result.enq}

ArgumentsOf(g, id) == {a \in g.args : a.proto = id}

\* The requested bindings whose function parameter is in the graph, and the
\* argument nodes they become under prototype id when created from node id
\* first on.
ParameterExists(b) == b.func_argument_id \in FuncArguments
RequestedArguments(id, first) ==
    LET kept == SelectSeq(call.prototype_arguments, ParameterExists) IN
    {[id |-> first + i - 1, proto |-> id,
      func_argument_id |-> kept[i].func_argument_id,
      source |-> kept[i].attribute_func_input_location] : i \in 1..Len(kept)}
SomeParameterLookupFails ==
    \E i \in DOMAIN call.prototype_arguments :
        FuncArgument_get_by_id_or_error(call.prototype_arguments[i].func_argument_id)
            \notin {"Ok", "NodeWithIdNotFound"}

----------------------------------------------------------------------------
\* C1: every call of upsert_attribute_binding whose resolved eventual parent
\* is a locked schema variant returns an error and leaves the graph exactly
\* as it was (no prototype, edge or argument created or removed, no node id
\* used) and enqueues nothing.
C1_LockedParentRejected ==
    (UpsertCalled /\ ResolvedParentLocked)
        => (~Succeeded /\ graph = pre_graph /\ result.enq = <<>>)

\* An attribute function bound to a locked schema variant: the lock check
\* is what rejected the call.
C1_Witness ==
    /\ UpsertCalled /\ ResolvedParentLocked
    /\ call.func_id = "fAttr"
    /\ result.err = "SchemaVariantLocked"

\* C2: whenever upsert_attribute_binding returns an error, the prototypes,
\* Prototype edges and arguments of the graph are those before the call.
C2_UpsertAtomic ==
    (UpsertCalled /\ ~Succeeded)
        => /\ graph.protos = pre_graph.protos
           /\ graph.pedges = pre_graph.pedges
           /\ graph.args = pre_graph.args

\* C3: every prop, every socket and every attribute value has at most one
\* outgoing Prototype edge, after any sequence of binding operations (also
\* after those that failed).
C3_ExclusivePrototypeEdge ==
    \A s \in PrototypeSources \cup AttributeValues :
        Cardinality({e \in graph.pedges : e[1] = s}) <= 1

\* A second successful operation in a row replaced a default prototype and,
\* before it, a component-level override was in place.
C3_Witness ==
    /\ UpsertCalled /\ Succeeded /\ ncalls = MaxCalls
    /\ ResolvedParent.kind = "SchemaVariant"
    /\ find_for_location(pre_graph, call.output_location) # {}
    /\ find_for_location(graph, call.output_location) = {result.proto}
    /\ \E a \in AttributeValues : component_prototype_id(graph, a) # {}

\* C4: a successful upsert_attribute_binding with a SchemaVariant parent
\* leaves the newly created prototype as the only default prototype of the
\* destination, and the prototype that was the default before is gone from
\* the graph with all its arguments.
C4_ReplacesDefault ==
    (UpsertCalled /\ Succeeded /\ ResolvedParent.kind = "SchemaVariant")
        => /\ result.proto \notin pre_graph.protos
           /\ result.proto \in graph.protos
           /\ graph.func[result.proto] = call.func_id
           /\ find_for_location(graph, call.output_location) = {result.proto}
           /\ \A old \in find_for_location(pre_graph, call.output_location) :
                /\ old \notin graph.protos
                /\ ArgumentsOf(graph, old) = {}
                /\ \A a \in ArgumentsOf(pre_graph, old) :
                       a.id \notin {x.id : x \in graph.args}
                /\ \A e \in graph.pedges : e[2] # old

\* The default that was replaced had an argument.
C4_Witness ==
    /\ UpsertCalled /\ Succeeded /\ ResolvedParent.kind = "SchemaVariant"
    /\ \E old \in find_for_location(pre_graph, call.output_location) :
           ArgumentsOf(pre_graph, old) # {}

\* C5: a successful upsert_attribute_binding on a prop with a Component
\* parent leaves every attribute value of that prop under that component
\* controlled by the new prototype; every other attribute value keeps its
\* controlling prototype, and the default prototype of the prop, its
\* function and its arguments are as before.
C5_ComponentOverride ==
    (UpsertCalled /\ Succeeded /\ ResolvedParent.kind = "Component"
        /\ call.output_location \in Props)
        => /\ \A a \in AttributeValues :
                IF AvLocation[a] = call.output_location
                      /\ AvComponent[a] = ResolvedParent.id
                THEN ControllingPrototypes(graph, a) = {result.proto}
                ELSE ControllingPrototypes(graph, a) = ControllingPrototypes(pre_graph, a)
           /\ find_for_location(graph, call.output_location)
                 = find_for_location(pre_graph, call.output_location)
           /\ \A d \in find_for_location(pre_graph, call.output_location) :
                /\ d \in graph.protos
                /\ graph.func[d] = pre_graph.func[d]
                /\ ArgumentsOf(graph, d) = ArgumentsOf(pre_graph, d)

\* The component has values of the prop, and so has another component.
C5_Witness ==
    /\ UpsertCalled /\ Succeeded /\ ResolvedParent.kind = "Component"
    /\ call.output_location \in Props
    /\ \E a, b \in AttributeValues :
          /\ AvLocation[a] = call.output_location
          /\ AvLocation[b] = call.output_location
          /\ AvComponent[a] = ResolvedParent.id
          /\ AvComponent[b] # ResolvedParent.id
          /\ ControllingPrototypes(graph, a) = {result.proto}

\* C6: after every successful upsert_attribute_binding, find_eventual_parent
\* on the returned prototype yields the eventual parent supplied, or, with
\* none supplied, the schema variant of the destination.
C6_EventualParentRoundTrip ==
    (UpsertCalled /\ Succeeded)
        => find_eventual_parent(graph, result.proto) = ResolvedParent

\* The prototypes that controlled the destination before the call: the
\* default of the destination for a SchemaVariant parent, and for a
\* Component parent those controlling the component's values of it.
OldPrototypes ==
    IF ResolvedParent.kind = "SchemaVariant"
    THEN find_for_location(pre_graph, call.output_location)
    ELSE UNION {ControllingPrototypes(pre_graph, a) :
                  a \in {x \in AttributeValues :
                           /\ AvLocation[x] = call.output_location
                           /\ AvComponent[x] = ResolvedParent.id}}

\* C7 as stated: a successful upsert_attribute_binding enqueues every
\* attribute value the old prototype controlled.
C7_EnqueuesOldPrototypeValues ==
    (UpsertCalled /\ Succeeded)
        => \A old \in OldPrototypes : attribute_value_ids(pre_graph, old) \subseteq Enqueued

\* The attribute values the destination has under the resolved parent: for
\* a SchemaVariant parent those with no component-level prototype, for a
\* Component parent those of the component.
DestinationValues ==
    {a \in AttributeValues :
        /\ AvLocation[a] = call.output_location
        /\ IF ResolvedParent.kind = "SchemaVariant"
           THEN component_prototype_id(graph, a) = {}
           ELSE AvComponent[a] = ResolvedParent.id}

\* C7 amended: a successful upsert_attribute_binding returns the prototype
\* it created and makes one enqueue call, naming exactly the attribute
\* values the new prototype controls (those of the destination under the
\* resolved parent), or none when there are no such values.
C7_EnqueuesNewPrototypeValues ==
    (UpsertCalled /\ Succeeded)
        => /\ result.proto = pre_graph.next
           /\ result.proto \in graph.protos
           /\ result.enq = IF DestinationValues = {} THEN <<>> ELSE <<DestinationValues>>

\* A component-level binding was made and its values enqueued, while the
\* old prototype goes on controlling the values of another component.
C7_Witness ==
    /\ UpsertCalled /\ Succeeded /\ ResolvedParent.kind = "Component"
    /\ result.enq # <<>>
    /\ \E old \in OldPrototypes : ~(attribute_value_ids(pre_graph, old) \subseteq Enqueued)

\* C8: in upsert_attribute_binding and update_attribute_binding_arguments a
\* requested argument whose function parameter is not in the graph never
\* fails the call; on success the prototype's arguments are exactly the
\* requested ones whose parameter exists, in order; any other failure of
\* the parameter lookup fails the call.
C8_StaleArgumentSkipped ==
    (UpsertCalled \/ UpdateCalled)
        => /\ result.err # "NodeWithIdNotFound"
           /\ (Succeeded /\ UpsertCalled)
                => ArgumentsOf(graph, result.proto)
                      = RequestedArguments(result.proto, result.proto + 1)
           /\ (Succeeded /\ UpdateCalled)
                => ArgumentsOf(graph, call.attribute_prototype_id)
                      = RequestedArguments(call.attribute_prototype_id, pre_graph.next)
           /\ SomeParameterLookupFails => ~Succeeded

\* A successful upsert with a stale binding before one whose parameter
\* exists.
C8_Witness ==
    /\ UpsertCalled /\ Succeeded
    /\ Len(call.prototype_arguments) = 2
    /\ ~ParameterExists(call.prototype_arguments[1])
    /\ ParameterExists(call.prototype_arguments[2])
    /\ Cardinality(ArgumentsOf(graph, result.proto)) = 1

\* C9: upsert_attribute_binding called with a function of another kind than
\* Attribute returns UnexpectedFuncKind, changes nothing in the graph and
\* enqueues nothing, whatever the other parameters are.
C9_UnexpectedFuncKind ==
    (UpsertCalled /\ call.func_id \in DOMAIN FuncKindOf
        /\ FuncKindOf[call.func_id] # "Attribute")
        => /\ result.err = "UnexpectedFuncKind"
           /\ graph = pre_graph
           /\ result.enq = <<>>

\* An action function bound to a locked schema variant, with arguments: the
\* kind is what the call reports.
C9_Witness ==
    /\ UpsertCalled /\ call.func_id = "fAction" /\ ResolvedParentLocked
    /\ call.prototype_arguments # <<>>
    /\ result.err = "UnexpectedFuncKind"

----------------------------------------------------------------------------
ResetCalled == call.op = "reset_attribute_binding"
DeleteCalled == call.op = "delete_attribute_prototype_and_args"

\* The props and sockets the prototype is the default of.
DestinationsOf(g, id) == {s \in PrototypeSources : <<s, id>> \in g.pedges}

\* C11: a successful reset_attribute_binding on a prototype that no
\* attribute value is attached to at component level (a schema-level
\* default) removes no prototype and no Prototype edge, leaves the prototype
\* running the intrinsic identity function with no arguments, and its
\* destination still has it as its one default prototype, with a function.
C11_ResetDefaultToIdentity ==
    (ResetCalled /\ Succeeded /\ call.attribute_value_id = "")
        => LET id == call.attribute_prototype_id IN
           /\ id \in graph.protos
           /\ graph.protos = pre_graph.protos
           /\ graph.pedges = pre_graph.pedges
           /\ graph.func[id] = IdentityFunc
           /\ ArgumentsOf(graph, id) = {}
           /\ DestinationsOf(pre_graph, id) # {}
           /\ \A s \in DestinationsOf(pre_graph, id) :
                  /\ find_for_location(graph, s) = {id}
                  /\ graph.func[id] \in DOMAIN FuncKindOf

\* The default that was reset ran an attribute function with arguments.
C11_Witness ==
    /\ ResetCalled /\ Succeeded /\ call.attribute_value_id = ""
    /\ pre_graph.func[call.attribute_prototype_id] = "fAttr"
    /\ ArgumentsOf(pre_graph, call.attribute_prototype_id) # {}

\* C12: a successful reset_attribute_binding on a prototype an attribute
\* value is attached to at component level leaves that value with no
\* component-level prototype, so that the default prototype of its prop or
\* socket controls it; the default prototype, its function and its
\* arguments are as before.
C12_ResetOverrideToDefault ==
    (ResetCalled /\ Succeeded /\ call.attribute_value_id # "")
        => LET av == call.attribute_value_id
               defaults == find_for_location(pre_graph, AvLocation[av])
           IN /\ component_prototype_id(graph, av) = {}
              /\ ControllingPrototypes(graph, av) = defaults
              /\ find_for_location(graph, AvLocation[av]) = defaults
              /\ \A d \in defaults :
                    /\ d \in graph.protos
                    /\ graph.func[d] = pre_graph.func[d]
                    /\ ArgumentsOf(graph, d) = ArgumentsOf(pre_graph, d)

\* The value was controlled by the override, and its prop has a default
\* with an argument to fall back to.
C12_Witness ==
    /\ ResetCalled /\ Succeeded /\ call.attribute_value_id # ""
    /\ ControllingPrototypes(pre_graph, call.attribute_value_id)
          = {call.attribute_prototype_id}
    /\ \E d \in find_for_location(graph, AvLocation[call.attribute_value_id]) :
          /\ d # call.attribute_prototype_id
          /\ ArgumentsOf(graph, d) # {}
          /\ ControllingPrototypes(graph, call.attribute_value_id) = {d}

\* The attribute values a reset affects: the value whose override was
\* removed, or the values the default controlled.
ResetAffectedValues ==
    IF call.attribute_value_id # ""
    THEN {call.attribute_value_id}
    ELSE attribute_value_ids(pre_graph, call.attribute_prototype_id)

\* C13: every successful reset_attribute_binding enqueues the attribute
\* values affected by the reset, whether an override was removed or a
\* default was set to the identity function.
C13_ResetEnqueuesAffected ==
    (ResetCalled /\ Succeeded) => ResetAffectedValues \subseteq Enqueued

\* The eventual parent of the prototype the last call named, before the call.
CalledPrototypeParent == find_eventual_parent(pre_graph, call.attribute_prototype_id)
CalledPrototypeParentLocked ==
    CalledPrototypeParent.kind = "SchemaVariant" /\ CalledPrototypeParent.id \in locked

\* C14: a call of update_attribute_binding_arguments, reset_attribute_binding
\* or delete_attribute_prototype_and_args on a prototype whose eventual
\* parent is a locked schema variant fails, leaves the graph exactly as it
\* was and enqueues nothing.
C14_MutationsCheckLock ==
    ((UpdateCalled \/ ResetCalled \/ DeleteCalled) /\ CalledPrototypeParentLocked)
        => (~Succeeded /\ graph = pre_graph /\ result.enq = <<>>)

\* A reset of a default with an argument, under a locked schema variant.
C14_Witness ==
    /\ ResetCalled /\ CalledPrototypeParentLocked
    /\ ArgumentsOf(pre_graph, call.attribute_prototype_id) # {}
    /\ result.err = "SchemaVariantLocked"

\* The nodes with a Prototype edge to the prototype.
PrototypeEdgeSources(g, id) == {e[1] : e \in {x \in g.pedges : x[2] = id}}

\* C16: for every node id of the graph, find_eventual_parent yields
\* Component(c) exactly when the id is a prototype an attribute value of
\* component c is attached to, SchemaVariant(v) when it is the default of a
\* prop, output socket or input socket of v, and an error (no parent at
\* all) when the id is no prototype or has no incoming Prototype edge.
C16_EventualParentCases ==
    \A id \in KnownIds :
        LET parent == find_eventual_parent(graph, id)
            sources == PrototypeEdgeSources(graph, id)
        IN /\ \A c \in Components :
                  (parent = EventualParentComponent(c))
                      <=> (id \in graph.protos
                             /\ \E a \in sources \cap AttributeValues : AvComponent[a] = c)
           /\ \A s \in sources \cap PrototypeSources :
                  id \in graph.protos
                      => parent = EventualParentSchemaVariant(LocationVariant[s])
           /\ (id \notin graph.protos \/ sources = {}) <=> parent.kind = "Err"
           /\ parent.kind = "Err" \/ parent \in EventualParents

\* The arguments of a component-level prototype were updated while the
\* graph also holds the default of an input socket and a node that is no
\* prototype.
C16_Witness ==
    /\ UpdateCalled /\ Succeeded
    /\ find_eventual_parent(graph, call.attribute_prototype_id).kind = "Component"
    /\ \E id \in graph.protos : PrototypeEdgeSources(graph, id) \cap InputSockets # {}
    /\ \E id \in KnownIds : find_eventual_parent(graph, id).kind = "Err"

----------------------------------------------------------------------------
\* The assemble_* functions applied to every request a handler may receive.

AssembleInit ==
    /\ request \in Requests
    /\ assembly = NotAssembled
    /\ BindingIdle
    /\ ViewIdle
    /\ RestIdle

AssembleEventualParent ==
    /\ assembly.eventual_parent.err = "Pending"
    /\ assembly' = [assembly EXCEPT !.eventual_parent =
                        assemble_eventual_parent(request.component_id,
                                                 request.schema_variant_id)]
    /\ UNCHANGED <<request, binding_vars, view_vars, rest_vars>>

AssembleOutputLocation ==
    /\ assembly.output_location.err = "Pending"
    /\ assembly' = [assembly EXCEPT !.output_location =
                        assemble_attribute_output_location(request.prop_id,
                                                           request.output_socket_id)]
    /\ UNCHANGED <<request, binding_vars, view_vars, rest_vars>>

AssembleNext == AssembleEventualParent \/ AssembleOutputLocation

AssembleSpec == AssembleInit /\ [][AssembleNext]_vars

\* C15: assemble_attribute_output_location returns a destination exactly
\* when one of the prop id and the output socket id is supplied and the
\* other is not, and then it is the one supplied; with both or with neither
\* it returns MalformedInput.
C15_OutputLocationExactlyOne ==
    assembly.output_location.err # "Pending"
        => LET out == assembly.output_location IN
           /\ (out.err = "Ok")
                 <=> ((request.prop_id = None) # (request.output_socket_id = None))
           /\ out.err = "Ok"
                 => /\ out.value # None
                    /\ out.value \in {request.prop_id, request.output_socket_id}
                    /\ out.value \in AttributeFuncDestinations
           /\ out.err # "Ok" => (out.err = "MalformedInput" /\ out.value = None)

\* A request that names a prop and an output socket was turned down.
C15_Witness ==
    /\ request.prop_id # None /\ request.output_socket_id # None
    /\ assembly.output_location.err = "MalformedInput"

----------------------------------------------------------------------------
\* Change sets over views.  Change sets are forked from head one after the
\* other; an Open change set is edited by its one writer; any forked change
\* set may be applied to head.  Node ids are handed out once and never again.

ViewIdOrder == <<"view1", "view2">>
ComponentIdOrder == <<"comp1", "comp2">>

\* The next id of the sequence not handed out yet (None when none is left).
FreshId(order) ==
    LET unused == {i \in DOMAIN order : order[i] \notin minted} IN
    IF unused = {} THEN None
    ELSE order[CHOOSE i \in unused : \A j \in unused : i <= j]

\* Faulty variant: the edit is written in place into the graph the change
\* set shares with the other Open change sets forked from the same graph.
Edited_InPlace(cs, snapshot) ==
    [c \in ChangeSetIds |->
        IF /\ change_sets[c].status = "Open"
           /\ change_sets[c].fork_point = change_sets[cs].fork_point
        THEN [change_sets[c] EXCEPT !.snapshot = snapshot]
        ELSE change_sets[c]]

\* An edit gives the change set a new current graph; nothing else changes.
Edited(cs, snapshot) == [change_sets EXCEPT ![cs].snapshot = snapshot]
Operation(op, cs, id, before) ==
    [op |-> op, change_set |-> cs, id |-> id, before |-> before, err |-> "Ok",
     was |-> change_sets[cs].status, after |-> 0, conflicts |-> {}]

ViewInit == ViewIdle /\ BindingIdle /\ AssembleIdle /\ RestIdle

\* Faulty variant: the new change set starts from the graph the change set
\* before it was forked from, not from head as it is now.
Fork_FromStaleHead ==
    \E cs \in ChangeSetIds :
        LET stale == IF cs = 1 THEN InitialSnapshot ELSE change_sets[cs - 1].fork_point IN
        /\ change_sets[cs].status = "Unused"
        /\ \A earlier \in ChangeSetIds :
               earlier < cs => change_sets[earlier].status # "Unused"
        /\ change_sets' = [change_sets EXCEPT
                              ![cs] = [status |-> "Open", snapshot |-> stale,
                                       fork_point |-> stale]]
        /\ last' = [NoOperation EXCEPT
                       !.op = "fork_from", !.change_set = cs, !.was = "Unused",
                       !.after = IF last.op = "apply_to_base" /\ last.err = "Ok"
                                      /\ last.was = "Open"
                                 THEN last.change_set ELSE 0]
        /\ UNCHANGED <<base, minted, binding_vars, assemble_vars, rest_vars>>

\* fork_from_head_change_set.
Fork ==
    \E cs \in ChangeSetIds :
        /\ change_sets[cs].status = "Unused"
        /\ \A earlier \in ChangeSetIds :
               earlier < cs => change_sets[earlier].status # "Unused"
        /\ change_sets' = [change_sets EXCEPT
                              ![cs] = [status |-> "Open", snapshot |-> base,
                                       fork_point |-> base]]
        /\ last' = [NoOperation EXCEPT
                       !.op = "fork_from", !.change_set = cs, !.was = "Unused",
                       !.after = IF last.op = "apply_to_base" /\ last.err = "Ok"
                                      /\ last.was = "Open"
                                 THEN last.change_set ELSE 0]
        /\ UNCHANGED <<base, minted, binding_vars, assemble_vars, rest_vars>>

\* ExpectView::create.
CreateView ==
    \E cs \in ChangeSetIds :
        LET view_id == FreshId(ViewIdOrder) IN
        /\ change_sets[cs].status = "Open"
        /\ view_id # None
        /\ change_sets' = Edited(cs, View_new(change_sets[cs].snapshot, view_id))
        /\ minted' = minted \cup {view_id}
        /\ last' = NoOperation
        /\ UNCHANGED <<base, binding_vars, assemble_vars, rest_vars>>

\* create_component_for_default_schema_name in a view of the change set.
CreateComponent ==
    \E cs \in ChangeSetIds :
      \E view_id \in change_sets[cs].snapshot.views :
        LET component_id == FreshId(ComponentIdOrder) IN
        /\ change_sets[cs].status = "Open"
        /\ component_id # None
        /\ change_sets' = Edited(cs, Component_new(change_sets[cs].snapshot,
                                                   component_id, view_id))
        /\ minted' = minted \cup {component_id}
        /\ last' = NoOperation
        /\ UNCHANGED <<base, binding_vars, assemble_vars, rest_vars>>

\* Component::remove.
RemoveComponent ==
    \E cs \in ChangeSetIds :
      \E component_id \in change_sets[cs].snapshot.components :
        /\ change_sets[cs].status = "Open"
        /\ change_sets' = Edited(cs, Component_remove(change_sets[cs].snapshot,
                                                      component_id))
        /\ last' = Operation("Component::remove", cs, component_id,
                             change_sets[cs].snapshot)
        /\ UNCHANGED <<base, minted, binding_vars, assemble_vars, rest_vars>>

\* View::remove of a view the change set has, or had at its fork point.
RemoveView ==
    \E cs \in ChangeSetIds :
      \E view_id \in (change_sets[cs].snapshot.views
                        \cup change_sets[cs].fork_point.views) \ {DefaultView} :
        /\ change_sets[cs].status = "Open"
        /\ change_sets' = Edited(cs, View_remove(change_sets[cs].snapshot, view_id))
        /\ last' = Operation("View::remove", cs, view_id, change_sets[cs].snapshot)
        /\ UNCHANGED <<base, minted, binding_vars, assemble_vars, rest_vars>>

\* Faulty variant: applying a change set that is Applied already is an error.
ApplyToBase_RejectsApplied ==
    \E cs \in ChangeSetIds :
        LET rebased == IF change_sets[cs].status = "Applied"
                       THEN [err |-> "ChangeSetNotOpen", graph |-> base, conflicts |-> {}]
                       ELSE Rebase(change_sets[cs].fork_point,
                                   change_sets[cs].snapshot, base)
        IN /\ change_sets[cs].status \in {"Open", "Applied"}
           /\ base' = IF rebased.err = "Ok" THEN rebased.graph ELSE base
           /\ change_sets' = IF rebased.err = "Ok"
                             THEN [change_sets EXCEPT ![cs].status = "Applied"]
                             ELSE change_sets
           /\ last' = [Operation("apply_to_base", cs, None, base)
                          EXCEPT !.err = rebased.err, !.conflicts = rebased.conflicts]
           /\ UNCHANGED <<minted, binding_vars, assemble_vars, rest_vars>>

\* apply_change_set_to_base: head becomes the rebase of the change set onto
\* it, and the change set is Applied; on an error head stays as it is.
\* Applying a change set that is Applied already succeeds and changes nothing.
ApplyToBase ==
    \E cs \in ChangeSetIds :
        LET rebased == IF change_sets[cs].status = "Applied"
                       THEN [err |-> "Ok", graph |-> base, conflicts |-> {}]
                       ELSE Rebase(change_sets[cs].fork_point,
                                   change_sets[cs].snapshot, base)
        IN /\ change_sets[cs].status \in {"Open", "Applied"}
           /\ base' = IF rebased.err = "Ok" THEN rebased.graph ELSE base
           /\ change_sets' = IF rebased.err = "Ok"
                             THEN [change_sets EXCEPT ![cs].status = "Applied"]
                             ELSE change_sets
           /\ last' = [Operation("apply_to_base", cs, None, base)
                          EXCEPT !.err = rebased.err, !.conflicts = rebased.conflicts]
           /\ UNCHANGED <<minted, binding_vars, assemble_vars, rest_vars>>

\* upsert_content on a view of the change set: the view gets a content it
\* does not have yet.
SetContent ==
    \E cs \in ChangeSetIds :
      \E view_id \in change_sets[cs].snapshot.views : \E content \in Contents :
        /\ change_sets[cs].status = "Open"
        /\ content # change_sets[cs].snapshot.contents[view_id]
        /\ change_sets' = Edited(cs, upsert_content(change_sets[cs].snapshot,
                                                    view_id, content))
        /\ last' = NoOperation
        /\ UNCHANGED <<base, minted, binding_vars, assemble_vars, rest_vars>>

ViewNext ==
    Fork \/ CreateView \/ CreateComponent \/ RemoveComponent \/ RemoveView
        \/ ApplyToBase

ViewSpec == ViewInit /\ [][ViewNext]_vars

\* The same operations on a workspace whose head already holds a view: the
\* change set that created it was applied and has been discarded since.
HeadWithViewInit ==
    /\ base = View_new(InitialSnapshot, ViewIdOrder[1])
    /\ change_sets = [cs \in ChangeSetIds |-> UnusedChangeSet]
    /\ minted = {ViewIdOrder[1]}
    /\ last = NoOperation
    /\ BindingIdle /\ AssembleIdle /\ RestIdle

HeadWithViewSpec == HeadWithViewInit /\ [][ViewNext]_vars

\* Change sets that create views and give view nodes new contents.
ContentNext == Fork \/ CreateView \/ SetContent \/ ApplyToBase

ContentSpec == ViewInit /\ [][ContentNext]_vars

----------------------------------------------------------------------------
\* The last operation applied change set cs to head.
AppliedLast(cs) == last.op = "apply_to_base" /\ last.change_set = cs
ForkPoint(cs) == change_sets[cs].fork_point
Snapshot(cs) == change_sets[cs].snapshot

\* All the change set did to the views since its fork is removing view_id.
OnlyRemoves(cs, view_id) ==
    /\ view_id \in ForkPoint(cs).views
    /\ Snapshot(cs).views = ForkPoint(cs).views \ {view_id}

\* C17: when two change sets forked from the same head each remove the
\* same view, applying one to the head they were forked from, and applying
\* either to the head the other one's apply left, succeeds; head then lists
\* the views of the fork point without the removed one, and the second
\* apply leaves the list of views as the first left it.
C17_BothRemovalsApply ==
    \A x, y \in ChangeSetIds : \A v \in ViewIds :
        (/\ x # y /\ AppliedLast(x)
         /\ change_sets[y].status # "Unused"
         /\ ForkPoint(x) = ForkPoint(y)
         /\ OnlyRemoves(x, v) /\ OnlyRemoves(y, v)
         /\ last.before \in {ForkPoint(x),
                              Rebase(ForkPoint(y), Snapshot(y), ForkPoint(y)).graph})
            => /\ last.err = "Ok"
               /\ View_list(base) = ForkPoint(x).views \ {v}
               /\ last.before # ForkPoint(x) => View_list(base) = View_list(last.before)

\* Both change sets are applied, the view held a component at the fork
\* point, and head is left with the default view alone, the component in it.
C17_Witness ==
    \E x, y \in ChangeSetIds : \E v \in ViewIds :
        /\ x # y /\ AppliedLast(x) /\ last.err = "Ok"
        /\ change_sets[y].status = "Applied"
        /\ ForkPoint(x) = ForkPoint(y)
        /\ OnlyRemoves(x, v) /\ OnlyRemoves(y, v)
        /\ last.before = Rebase(ForkPoint(y), Snapshot(y), ForkPoint(y)).graph
        /\ Geometry_list_by_view_id(ForkPoint(x), v) # {}
        /\ View_list(base) = {DefaultView}
        /\ base.components # {}
        /\ \A c \in base.components : <<c, DefaultView>> \in base.geometries

\* Change set x removed view v, and head has meanwhile gained component c,
\* created in v by another change set.
RemovalMeetsNewComponent(x, v, c) ==
    /\ AppliedLast(x)
    /\ v \in ForkPoint(x).views /\ v \notin Snapshot(x).views
    /\ c \notin ForkPoint(x).components
    /\ <<c, v>> \in last.before.geometries

\* Change set x created component c in view v, and head has meanwhile lost v.
NewComponentMeetsRemoval(x, v, c) ==
    /\ AppliedLast(x)
    /\ v \in ForkPoint(x).views /\ v \notin last.before.views
    /\ c \notin ForkPoint(x).components
    /\ <<c, v>> \in Snapshot(x).geometries

\* C18 as stated: whichever side removed the view and whichever created
\* the component in it, after the apply the view is gone from head and the
\* component is in head, anchored to the default view.
C18_RemovalWinsComponentReanchored ==
    \A x \in ChangeSetIds : \A v \in ViewIds : \A c \in ComponentIds :
        (RemovalMeetsNewComponent(x, v, c) \/ NewComponentMeetsRemoval(x, v, c))
            => /\ v \notin View_list(base)
               /\ c \in base.components
               /\ <<c, DefaultView>> \in base.geometries

\* C18 amended: when the change set that removed the view is applied to a
\* head that has gained a component in that view, the apply succeeds, the
\* view stays in head and the component stays in head with its geometry in
\* that view and none in the default view.
C18_RemovalDroppedComponentStays ==
    \A x \in ChangeSetIds : \A v \in ViewIds : \A c \in ComponentIds :
        RemovalMeetsNewComponent(x, v, c)
            => /\ last.err = "Ok"
               /\ v \in View_list(base)
               /\ c \in base.components
               /\ <<c, v>> \in base.geometries
               /\ <<c, DefaultView>> \notin base.geometries

\* The removal was applied after the component had reached head.
C18_Witness ==
    \E x \in ChangeSetIds : \E v \in ViewIds : \E c \in ComponentIds :
        /\ RemovalMeetsNewComponent(x, v, c)
        /\ change_sets[x].status = "Applied"
        /\ <<c, v>> \in base.geometries

\* C19: applying a change set that removed view v to a head that has since
\* gained a component with a geometry in v succeeds and leaves v in head
\* beside the default view, holding the geometries it held before the apply
\* but for those the change set removed; the change set itself is without v.
C19_RemovalOfViewInUseDropped ==
    \A x \in ChangeSetIds : \A v \in ViewIds :
        (\E c \in ComponentIds : RemovalMeetsNewComponent(x, v, c))
            => /\ last.err = "Ok"
               /\ {v, DefaultView} \subseteq View_list(base)
               /\ Geometry_list_by_view_id(base, v)
                     = Geometry_list_by_view_id(last.before, v)
                          \ Updates(ForkPoint(x), Snapshot(x)).removed_geometries
               /\ Geometry_list_by_view_id(base, v) # {}
               /\ v \notin View_list(Snapshot(x))

\* The scenario of the tests: the view was empty at the fork point and
\* holds one geometry when the removal is applied; head keeps two views.
C19_Witness ==
    \E x \in ChangeSetIds : \E v \in ViewIds :
        /\ \E c \in ComponentIds : RemovalMeetsNewComponent(x, v, c)
        /\ Geometry_list_by_view_id(ForkPoint(x), v) = {}
        /\ Cardinality(Geometry_list_by_view_id(base, v)) = 1
        /\ Cardinality(View_list(base)) = 2
        /\ Cardinality(View_list(Snapshot(x))) = 1

\* Change set x removed view v and every component that had a geometry in
\* v at the fork point, and head holds no geometry in v from elsewhere.
RemovedViewAndItsComponents(x, v) ==
    /\ AppliedLast(x)
    /\ v \in ForkPoint(x).views /\ v \notin Snapshot(x).views
    /\ \A g \in Geometry_list_by_view_id(ForkPoint(x), v) :
           g[1] \notin Snapshot(x).components
    /\ Geometry_list_by_view_id(last.before, v) \subseteq ForkPoint(x).geometries

\* C20: applying a change set that removed every component of view v and
\* then v removes v from head, leaves none of these components in head
\* and adds to the default view no geometry but of components the change
\* set holds; and Component::remove leaves the views of the change set as
\* they were and every view with the geometries it had but those of the
\* component.
C20_RemovedComponentsNotReanchored ==
    /\ \A x \in ChangeSetIds : \A v \in ViewIds :
           RemovedViewAndItsComponents(x, v)
               => /\ last.err = "Ok"
                  /\ v \notin View_list(base)
                  /\ \A g \in Geometry_list_by_view_id(ForkPoint(x), v) :
                         /\ g[1] \notin base.components
                         /\ \A h \in base.geometries : h[1] # g[1]
                  /\ \A g \in Geometry_list_by_view_id(base, DefaultView)
                                  \ Geometry_list_by_view_id(last.before, DefaultView) :
                         g[1] \in Snapshot(x).components
    /\ last.op = "Component::remove"
           => LET after == Snapshot(last.change_set) IN
              /\ View_list(after) = View_list(last.before)
              /\ last.id \notin after.components
              /\ \A v \in View_list(after) :
                     Geometry_list_by_view_id(after, v)
                         = {g \in Geometry_list_by_view_id(last.before, v) :
                               g[1] # last.id}

\* The scenario of the test: the view held one component, the change set
\* removed it and the view, and after the apply head has the default view
\* alone with no geometry in it.
C20_Witness ==
    \E x \in ChangeSetIds : \E v \in ViewIds :
        /\ RemovedViewAndItsComponents(x, v)
        /\ Geometry_list_by_view_id(ForkPoint(x), v) # {}
        /\ Geometry_list_by_view_id(last.before, v) # {}
        /\ View_list(base) = {DefaultView}
        /\ Geometry_list_by_view_id(base, DefaultView) = {}

----------------------------------------------------------------------------
\* Change set y was forked from head right after change set x was applied.
ForkedAfterApply(y, x) ==
    last.op = "fork_from" /\ last.change_set = y /\ last.after = x

\* C21 as stated: a change set forked from head right after change set x
\* was applied holds everything x did: the views and components x created
\* are in it, the views and components x removed are not.
C21_ForkHoldsAllEffects ==
    \A x, y \in ChangeSetIds :
        ForkedAfterApply(y, x) =>
            LET u == Updates(ForkPoint(x), Snapshot(x)) IN
            /\ u.added_views \subseteq View_list(Snapshot(y))
            /\ u.added_components \subseteq Snapshot(y).components
            /\ u.removed_components \cap Snapshot(y).components = {}
            /\ u.removed_views \cap View_list(Snapshot(y)) = {}

\* C21, amended: a change set forked from head right after change set x was
\* applied starts from the graph the apply left (as its current graph and
\* as its fork point); the views and components x created are in it and
\* the components x removed are not; a view x removed is in it only when
\* the removal was dropped, that is when the view holds a geometry that x
\* did not remove.
C21_ForkHoldsEffectsKept ==
    \A x, y \in ChangeSetIds :
        ForkedAfterApply(y, x) =>
            LET u == Updates(ForkPoint(x), Snapshot(x)) IN
            /\ Snapshot(y) = base /\ ForkPoint(y) = base
            /\ u.added_views \subseteq View_list(Snapshot(y))
            /\ u.added_components \subseteq Snapshot(y).components
            /\ u.removed_components \cap Snapshot(y).components = {}
            /\ \A v \in u.removed_views \cap View_list(Snapshot(y)) :
                   \E g \in Geometry_list_by_view_id(Snapshot(y), v) :
                       g \notin u.removed_geometries

\* A view and a component in it were created in x, x was applied, and the
\* next fork lists both.
C21_Witness ==
    \E x, y \in ChangeSetIds : \E v \in ViewIds : \E c \in ComponentIds :
        /\ ForkedAfterApply(y, x)
        /\ v \in Updates(ForkPoint(x), Snapshot(x)).added_views
        /\ c \in Updates(ForkPoint(x), Snapshot(x)).added_components
        /\ v \in View_list(Snapshot(y))
        /\ <<c, v>> \in Geometry_list_by_view_id(Snapshot(y), v)

----------------------------------------------------------------------------
\* C22: the edits of a change set that has not been applied are seen by
\* nobody else: only an apply changes head, a step changes at most one
\* change set, and a change set that is forked starts from head as it is,
\* whatever the Open change sets have done (a view an Open change set
\* removed is still in head and in the new fork).
C22_OpenEditsInvisible ==
    [][/\ last'.op # "apply_to_base" => base' = base
       /\ \A x \in ChangeSetIds :
              change_sets'[x] # change_sets[x] =>
                  \A y \in ChangeSetIds \ {x} : change_sets'[y] = change_sets[y]
       /\ last'.op = "fork_from" =>
              /\ change_sets'[last'.change_set].snapshot = base
              /\ View_list(base) \subseteq View_list(change_sets'[last'.change_set].snapshot)
      ]_vars

\* An Open change set has removed a view of its fork point; a change set
\* forked after that lists the view, and so does head.
C22_Witness ==
    \E x, y \in ChangeSetIds : \E v \in ViewIds :
        /\ x # y
        /\ change_sets[x].status = "Open"
        /\ last.op = "fork_from" /\ last.change_set = y
        /\ v \in View_list(ForkPoint(x)) /\ v \notin View_list(Snapshot(x))
        /\ v \in View_list(Snapshot(y)) /\ v \in View_list(base)

----------------------------------------------------------------------------
\* C23: applying a change set a second time raises no error and leaves
\* head as the first apply left it; and right after the first apply, merging
\* the change set into head once more would give head again.
C23_SecondApplyIdempotent ==
    \A x \in ChangeSetIds :
        /\ (AppliedLast(x) /\ last.was = "Applied") =>
               /\ last.err = "Ok"
               /\ base = last.before
               /\ change_sets[x].status = "Applied"
        /\ (AppliedLast(x) /\ last.was = "Open" /\ last.err = "Ok") =>
               LET again == Rebase(ForkPoint(x), Snapshot(x), base) IN
               again.err = "Ok" /\ again.graph = base

\* A change set that created a view and removed a component is applied a
\* second time, and head still shows what it did.
C23_Witness ==
    \E x \in ChangeSetIds :
        LET u == Updates(ForkPoint(x), Snapshot(x)) IN
        /\ AppliedLast(x) /\ last.was = "Applied" /\ last.err = "Ok"
        /\ u.added_views # {} /\ u.removed_components # {}
        /\ u.added_views \subseteq View_list(base)
        /\ u.removed_components \cap base.components = {}
        /\ base = last.before

----------------------------------------------------------------------------
\* The views that change set x and the graph theirs both gave a new content
\* since x was forked, each its own.
BothModified(x, theirs) ==
    {v \in View_list(ForkPoint(x)) \cap View_list(Snapshot(x)) \cap View_list(theirs) :
        /\ Snapshot(x).contents[v] # ForkPoint(x).contents[v]
        /\ theirs.contents[v] # ForkPoint(x).contents[v]
        /\ Snapshot(x).contents[v] # theirs.contents[v]}

\* C24: when an Open change set is applied and a node has been given a new
\* content in it and another in head since the fork, the apply reports a
\* conflict, head is exactly what it was before the apply, the change set
\* stays Open, and the result names every such node with both contents.
C24_ConflictAllOrNothing ==
    \A x \in ChangeSetIds :
        (AppliedLast(x) /\ last.was = "Open" /\ BothModified(x, last.before) # {}) =>
            /\ last.err = "Conflict"
            /\ base = last.before
            /\ change_sets[x].status = "Open"
            /\ last.conflicts =
                   {[node |-> v, ours |-> Snapshot(x).contents[v],
                     theirs |-> last.before.contents[v]] : v \in BothModified(x, last.before)}

\* The change set created a view and gave the default view a new content;
\* head gave the default view another content; the apply ends in a conflict
\* and the created view is not in head.
C24_Witness ==
    \E x \in ChangeSetIds : \E v \in ViewIds :
        /\ AppliedLast(x) /\ last.was = "Open" /\ last.err = "Conflict"
        /\ DefaultView \in BothModified(x, last.before)
        /\ Snapshot(x).contents[DefaultView] # base.contents[DefaultView]
        /\ v \in View_list(Snapshot(x)) /\ v \notin View_list(base)
        /\ change_sets[x].status = "Open"

----------------------------------------------------------------------------
\* Handlers.  The steps of create_connection in the order of its code; a
\* handler of a binding operation differs in what it enqueues and in having
\* no event to publish.  Every call that can return an error can end the
\* request without a commit.

outside_handler ==
    <<binding_vars, assemble_vars, view_vars, propagation_vars, compile_vars, crypto_vars,
      header_vars>>

HandlerInit ==
    /\ HandlerIdle /\ BindingIdle /\ AssembleIdle /\ ViewIdle /\ PropagationIdle
    /\ CompileIdle /\ CryptoIdle /\ HeaderIdle

\* txns.start() and the building of the context.
StartHandler ==
    \E kind \in HandlerKinds :
        /\ handler.pc = "idle"
        /\ handler.transaction < MaxHandlers
        /\ handler' = [pc |-> "started", kind |-> kind,
                       transaction |-> handler.transaction + 1, impacted |-> {}]
        /\ UNCHANGED <<jobs, committed, outside_handler>>

\* Connection::new and the lookups up to the attribute value of the tail
\* socket; the binding operation up to its enqueue.
Mutate ==
    \E impacted \in ImpactedValues(handler.kind) :
        /\ handler.pc = "started"
        /\ handler' = [handler EXCEPT !.pc = "mutated", !.impacted = impacted]
        /\ UNCHANGED <<jobs, committed, outside_handler>>

\* ctx.enqueue_job(DependentValuesUpdate::new(..)); in a binding operation
\* enqueue_dvu_for_impacted_values, which enqueues nothing for no values.
Enqueue ==
    /\ handler.pc = "mutated"
    /\ handler' = [handler EXCEPT !.pc = "enqueued"]
    /\ jobs' = IF handler.impacted = {} THEN jobs
               ELSE enqueue_job(jobs, handler.transaction, handler.impacted)
    /\ UNCHANGED <<committed, outside_handler>>

\* WsEvent::change_set_written(..).publish(..).
Publish ==
    /\ handler.pc = "enqueued"
    /\ handler.kind = "create_connection"
    /\ handler' = [handler EXCEPT !.pc = "published"]
    /\ UNCHANGED <<jobs, committed, outside_handler>>

\* txns.commit(): the transaction is committed.
Commit ==
    /\ \/ handler.pc = "published"
       \/ handler.pc = "enqueued" /\ handler.kind = "binding"
    /\ handler' = [handler EXCEPT !.pc = "committed"]
    /\ committed' = committed \cup {handler.transaction}
    /\ UNCHANGED <<jobs, outside_handler>>

\* txns.commit(), after the commit: the waiting jobs are sent.
ProcessQueue ==
    /\ handler.pc = "committed"
    /\ handler' = [handler EXCEPT !.pc = "done"]
    /\ jobs' = process_queue(jobs)
    /\ UNCHANGED <<committed, outside_handler>>

\* One of the calls returns an error: the handler returns it and the
\* transaction is dropped.
FailHandler ==
    /\ handler.pc \in {"started", "mutated", "enqueued", "published"}
    /\ handler' = [handler EXCEPT !.pc = "failed"]
    /\ jobs' = rollback(jobs)
    /\ UNCHANGED <<committed, outside_handler>>

\* The response is sent.
ReturnHandler ==
    /\ handler.pc \in {"done", "failed"}
    /\ handler' = [handler EXCEPT !.pc = "idle"]
    /\ UNCHANGED <<jobs, committed, outside_handler>>

HandlerNext ==
    StartHandler \/ Mutate \/ Enqueue \/ Publish \/ Commit \/ ProcessQueue
        \/ FailHandler \/ ReturnHandler

HandlerSpec == HandlerInit /\ [][HandlerNext]_vars

\* C25: the job runner has received an attribute value only for a
\* transaction that is committed; what a handler enqueued before its commit,
\* or without ever reaching it, the job runner has not received.
C25_EnqueueAfterCommit ==
    /\ \A job \in jobs.runner : job[1] \in committed
    /\ handler.pc \in {"enqueued", "published", "failed"} =>
           \A job \in jobs.runner : job[1] # handler.transaction

\* The job runner has the values of a committed transaction, and a second
\* handler that enqueued values has failed before its commit.
C25_Witness ==
    /\ jobs.runner # {}
    /\ handler.pc = "failed" /\ handler.impacted # {}
    /\ handler.transaction \notin committed
    /\ \A job \in jobs.runner : job[1] \in committed

----------------------------------------------------------------------------
\* A dependent values update over every argument-source graph of three
\* values and every set of roots.

outside_propagation ==
    <<binding_vars, assemble_vars, view_vars, handler_vars, compile_vars, crypto_vars,
      header_vars>>

PropagationInit ==
    /\ dependencies \in SUBSET Edges
    /\ roots \in SUBSET DvuValues \ {{}}
    /\ dvu = [pc |-> "closure", closure |-> roots, frontier |-> roots,
              recomputed |-> <<>>]
    /\ BindingIdle /\ AssembleIdle /\ ViewIdle /\ HandlerIdle /\ CompileIdle
    /\ CryptoIdle /\ HeaderIdle

\* The walk takes a value of the frontier.
Walk ==
    \E v \in dvu.frontier :
        /\ dvu.pc = "closure"
        /\ dvu' = Walked(dvu, dependencies, v)
        /\ UNCHANGED <<dependencies, roots, outside_propagation>>

\* The walk is over: a cycle in the argument-source graph is reported and
\* nothing is recomputed; without one the recomputation starts.
Validate ==
    /\ dvu.pc = "closure" /\ dvu.frontier = {}
    /\ dvu' = [dvu EXCEPT !.pc = IF OnCycle(dependencies) # {} THEN "error"
                                 ELSE "recompute"]
    /\ UNCHANGED <<dependencies, roots, outside_propagation>>

\* A value that is ready is recomputed.
Recompute ==
    \E v \in DvuValues :
        /\ dvu.pc = "recompute"
        /\ Ready(dvu, dependencies, v)
        /\ dvu' = [dvu EXCEPT !.recomputed = Append(@, v)]
        /\ UNCHANGED <<dependencies, roots, outside_propagation>>

\* Every value of the closure is recomputed.
Finish ==
    /\ dvu.pc = "recompute"
    /\ dvu.closure = Range(dvu.recomputed)
    /\ dvu' = [dvu EXCEPT !.pc = "done"]
    /\ UNCHANGED <<dependencies, roots, outside_propagation>>

PropagationNext == Walk \/ Validate \/ Recompute \/ Finish

PropagationSpec == PropagationInit /\ [][PropagationNext]_vars

\* C26: the closure a run ends its walk with holds the roots and every value
\* that takes an argument, directly or over other values, from a root, and
\* nothing else; during the walk it holds nothing else either.
C26_ClosureExact ==
    LET expected == roots \cup Descendants(dependencies, roots, {}) IN
    /\ dvu.pc \in {"recompute", "done", "error"} => dvu.closure = expected
    /\ dvu.pc = "closure" => roots \subseteq dvu.closure /\ dvu.closure \subseteq expected

\* The run ended with a value in the closure that is two edges away from
\* the one root and takes no argument from the root itself.
C26_Witness ==
    \E a, b, c \in DvuValues :
        /\ dvu.pc = "done"
        /\ roots = {a}
        /\ dependencies = {<<a, b>>, <<b, c>>}
        /\ dvu.closure = {a, b, c}

\* C27: a value is recomputed after all its sources in the closure; and when
\* the argument-source graph has a cycle the run, once its walk is over,
\* reports the error and has recomputed no value, none of the cycle either.
C27_TopologicalOrCycleError ==
    /\ \A j \in DOMAIN dvu.recomputed :
           /\ \A u \in DirectSources(dependencies, dvu.recomputed[j]) \cap dvu.closure :
                  \E i \in 1..(j - 1) : dvu.recomputed[i] = u
           /\ \A i \in 1..(j - 1) : dvu.recomputed[i] # dvu.recomputed[j]
    /\ (OnCycle(dependencies) # {} /\ dvu.pc # "closure") =>
           /\ dvu.pc = "error"
           /\ Range(dvu.recomputed) \cap OnCycle(dependencies) = {}
    /\ dvu.pc = "error" => OnCycle(dependencies) # {}
    /\ dvu.pc = "done" => Range(dvu.recomputed) = dvu.closure

\* A chain of three values was recomputed from its first to its last, the
\* last one taking arguments from both others.
C27_Witness ==
    \E a, b, c \in DvuValues :
        /\ dvu.pc = "done"
        /\ dependencies = {<<a, b>>, <<b, c>>, <<a, c>>}
        /\ roots = {a}
        /\ dvu.recomputed = <<a, b, c>>

----------------------------------------------------------------------------
\* The types of the attribute function fAttr, compiled over the graphs that
\* binding it to props and sockets gives.

CompiledFunc == "fAttr"

\* The bindings a request gives the function here: its parameters fa1 and
\* faIdentity taken from props and from an input socket.
CompileArgumentBindings ==
    {Binding("fa1", SourceProp("p1")),
     Binding("fa1", SourceProp("p2")),
     Binding("faIdentity", SourceProp("p1")),
     Binding("fa1", SourceInputSocket("i1"))}
CompileArgumentLists == UNION {[1..n -> CompileArgumentBindings] : n \in 0..MaxArgs}

outside_compile ==
    <<assemble_vars, view_vars, handler_vars, propagation_vars, crypto_vars,
      header_vars>>

CompileInit ==
    /\ BindingIdle /\ AssembleIdle /\ ViewIdle /\ HandlerIdle /\ PropagationIdle
    /\ CompileIdle /\ CryptoIdle /\ HeaderIdle

\* upsert_attribute_binding of the function.
Bind ==
    \E eventual_parent \in {NoEventualParent, EventualParentComponent("c2")},
       output_location \in AttributeFuncDestinations,
       prototype_arguments \in CompileArgumentLists :
        /\ ncalls < MaxCalls
        /\ ncalls' = ncalls + 1
        /\ graph' = upsert_attribute_binding(graph, CompiledFunc, eventual_parent,
                                             output_location, prototype_arguments).g
        /\ compiled' = NothingCompiled
        /\ UNCHANGED <<locked, pre_graph, call, result, outside_compile>>

Compile ==
    /\ compiled.err = "Pending"
    /\ compiled' = compile_attribute_types(graph, CompiledFunc)
    /\ UNCHANGED <<binding_vars, outside_compile>>

CompileNext == Bind \/ Compile

CompileSpec == CompileInit /\ [][CompileNext]_vars

\* The prototypes that use the compiled function, and their arguments that
\* bind parameter a to a prop.
UsingPrototypes == {p \in graph.protos : graph.func[p] = CompiledFunc}
PropArguments(a) ==
    {x \in graph.args : /\ x.proto \in UsingPrototypes
                        /\ x.func_argument_id = a
                        /\ x.source.kind = "Prop"}
NoRepeat(types) == Len(types) = Cardinality(Range(types))

\* C28: the Input descriptor lists for each parameter of the function the
\* types of the props that an argument of a prototype using the function
\* takes for it, each type once.
C28_InputTypesPerArgument ==
    compiled.err = "Ok" =>
        \A a \in FuncArguments :
            /\ Range(compiled.input[a]) =
                   {PropTsType[x.source.value] : x \in PropArguments(a)}
            /\ NoRepeat(compiled.input[a])

\* Two prototypes use the function; parameter fa1 is given both prop types,
\* one of them twice, and faIdentity one.
C28_Witness ==
    /\ compiled.err = "Ok"
    /\ Cardinality(UsingPrototypes) = 2
    /\ Cardinality(PropArguments("fa1")) = 3
    /\ Range(compiled.input["fa1"]) = {"string", "number"}
    /\ Len(compiled.input["fa1"]) = 2
    /\ compiled.input["faIdentity"] = <<"string">>

\* C29: the Output descriptor lists the type of the output location of
\* every prototype that uses the function, those without arguments too, each
\* type once.
C29_OutputTypesOfEveryPrototype ==
    compiled.err = "Ok" =>
        /\ Range(compiled.output) =
               {OutputType(OutputLocationOf(graph, p)) : p \in UsingPrototypes}
        /\ NoRepeat(compiled.output)

----------------------------------------------------------------------------
\* SymmetricCryptoService values are built from an active key and a list of
\* extra keys, encrypt messages, and decrypt what a caller hands them.

outside_crypto ==
    <<binding_vars, assemble_vars, view_vars, handler_vars, propagation_vars,
      compile_vars, header_vars>>

KeyLists == UNION {[1..n -> Keys] : n \in 0..MaxExtraKeys}

CryptoInit ==
    /\ CryptoIdle
    /\ BindingIdle /\ AssembleIdle /\ ViewIdle
    /\ HandlerIdle /\ PropagationIdle /\ CompileIdle /\ HeaderIdle

NewService ==
    \E i \in ServiceIds, active_key \in Keys, extra_keys \in KeyLists :
        /\ ~services[i].built
        /\ \A j \in ServiceIds : j < i => services[j].built
        /\ services' = [services EXCEPT ![i] = new(active_key, extra_keys)]
        /\ UNCHANGED <<sealed, crypto, outside_crypto>>

Encrypt ==
    \E i \in ServiceIds, message \in Messages, nonce \in Nonces :
        LET out == encrypt(services[i], message, nonce) IN
        /\ services[i].built
        /\ Cardinality(sealed) < MaxSealed
        /\ sealed' = IF out.err = "Ok" THEN sealed \cup {out} ELSE sealed
        /\ crypto' = [op |-> "encrypt", service |-> i, err |-> out.err,
                      message |-> message, ciphertext |-> out.ciphertext,
                      nonce |-> out.nonce, key_hash |-> out.key_hash]
        /\ UNCHANGED <<services, outside_crypto>>

Decrypt ==
    \E i \in ServiceIds, nonce \in Nonces, key_hash \in Hashes :
      \E ciphertext \in {x.ciphertext : x \in sealed} \cup {Forged} :
        LET out == decrypt(services[i], ciphertext, nonce, key_hash) IN
        /\ services[i].built
        /\ crypto' = [op |-> "decrypt", service |-> i, err |-> out.err,
                      message |-> out.message, ciphertext |-> ciphertext,
                      nonce |-> nonce, key_hash |-> key_hash]
        /\ UNCHANGED <<services, sealed, outside_crypto>>

CryptoNext == NewService \/ Encrypt \/ Decrypt

CryptoSpec == CryptoInit /\ [][CryptoNext]_vars

\* The keys a service was built with: its active key and its extra keys.
TrustedHashes(i) == DOMAIN services[i].donkeys

\* C30: a service decrypts what was encrypted under any key it trusts, the
\* active one or an extra one, when it is given the ciphertext, the nonce
\* and the key hash encrypt returned: the result is the message encrypted.
C30_DecryptsWithAnyTrustedKey ==
    \A x \in sealed :
        (/\ crypto.op = "decrypt"
         /\ crypto.ciphertext = x.ciphertext
         /\ crypto.nonce = x.nonce
         /\ crypto.key_hash = x.key_hash
         /\ x.key_hash \in TrustedHashes(crypto.service)) =>
            /\ crypto.err = "Ok"
            /\ crypto.message = x.ciphertext.message

\* Key rotation: a message encrypted by a service whose active key is K1 is
\* decrypted by a service built with active key K2 and extra key K1.
C30_Witness ==
    \E x \in sealed : \E i \in ServiceIds :
        /\ crypto.op = "decrypt" /\ crypto.service = i
        /\ services[i] = new("K2", <<"K1">>)
        /\ x.key_hash = blake3_hash("K1")
        /\ x.key_hash # services[i].active_key_hash
        /\ crypto.ciphertext = x.ciphertext /\ crypto.nonce = x.nonce
        /\ crypto.key_hash = x.key_hash
        /\ crypto.err = "Ok" /\ crypto.message = x.ciphertext.message

\* C31: decrypt with a key hash of no trusted key returns
\* MissingDonkeyForHash whatever the ciphertext and the nonce are;
\* DecryptionFailed is returned only when the hash has a key and that key
\* does not open the ciphertext under the nonce.
C31_MissingKeyIsNotDecryptionFailed ==
    crypto.op = "decrypt" =>
        /\ crypto.key_hash \notin TrustedHashes(crypto.service) =>
               crypto.err = "MissingDonkeyForHash"
        /\ crypto.err = "DecryptionFailed" =>
               /\ crypto.key_hash \in TrustedHashes(crypto.service)
               /\ ~open(crypto.ciphertext, crypto.nonce,
                        services[crypto.service].donkeys[crypto.key_hash]).ok

\* A service trusting only K2 is asked to decrypt, with the hash of K1, what
\* a service with active key K1 encrypted.
C31_Witness ==
    \E x \in sealed :
        /\ crypto.op = "decrypt"
        /\ services[crypto.service] = new("K2", <<>>)
        /\ x.key_hash = blake3_hash("K1")
        /\ crypto.ciphertext = x.ciphertext /\ crypto.nonce = x.nonce
        /\ crypto.key_hash = x.key_hash
        /\ crypto.err = "MissingDonkeyForHash"

\* C32: a service that decrypts the ciphertext, nonce and key hash its own
\* encrypt has just returned for a message gets that message back.
C32_EncryptDecryptRoundTrip ==
    [][(/\ crypto.op = "encrypt" /\ crypto.err = "Ok"
        /\ crypto'.op = "decrypt"
        /\ crypto'.service = crypto.service
        /\ crypto'.ciphertext = crypto.ciphertext
        /\ crypto'.nonce = crypto.nonce
        /\ crypto'.key_hash = crypto.key_hash) =>
           /\ crypto'.err = "Ok"
           /\ crypto'.message = crypto.message]_vars

\* A service with no extra key has decrypted what it encrypted itself.
C32_Witness ==
    \E x \in sealed :
        /\ crypto.op = "decrypt"
        /\ services[crypto.service] = new("K1", <<>>)
        /\ ~services[2].built
        /\ crypto.ciphertext = x.ciphertext /\ crypto.nonce = x.nonce
        /\ crypto.key_hash = x.key_hash
        /\ crypto.err = "Ok" /\ crypto.message \in Messages

\* C39: the hash of the active key given to new is the active key hash of
\* the service and a key of its map, each hash of the map is the hash of
\* its key, and so encrypt does not panic, seals with the active key and
\* returns the active key hash.
C39_ActiveKeyTrustedAndUsed ==
    /\ \A active_key \in Keys, extra_keys \in KeyLists :
           new(active_key, extra_keys).active_key_hash = blake3_hash(active_key)
    /\ \A i \in ServiceIds : services[i].built =>
           /\ services[i].active_key_hash \in TrustedHashes(i)
           /\ \A h \in TrustedHashes(i) : blake3_hash(services[i].donkeys[h]) = h
    /\ crypto.op = "encrypt" =>
           /\ crypto.err = "Ok"
           /\ crypto.key_hash = services[crypto.service].active_key_hash
           /\ blake3_hash(crypto.ciphertext.key) = crypto.key_hash
           /\ crypto.ciphertext.message = crypto.message

\* A service whose extra keys repeat the active key K1 and add K2 has
\* encrypted under K1.
C39_Witness ==
    /\ crypto.op = "encrypt"
    /\ services[crypto.service] = new("K1", <<"K1", "K2">>)
    /\ crypto.ciphertext.key = "K1"
    /\ crypto.key_hash = blake3_hash("K1")

----------------------------------------------------------------------------
\* A message arrives with any of the three headers, a sender injects a
\* ContentInfo into its header map, and a receiver parses the map.

outside_header ==
    <<binding_vars, assemble_vars, view_vars, handler_vars, propagation_vars,
      compile_vars, crypto_vars>>

ContentTypes == {<<"application/json">>, <<"application/cbor">>}
MessageTypes == {<<"EnqueueRequest">>, <<"ReplyRebaseMessage">>}
MessageVersions == {0, 1, 7, 10, 42}
\* What a message may hold under X-MESSAGE-VERSION.
VersionTexts ==
    {<<>>, <<"1">>, <<"0", "1">>, <<"1", "0">>, <<"+", "2">>, <<"+">>,
     <<"-", "1">>, <<"1", "a">>, <<" ", "1">>, <<"one">>}
ContentInfos ==
    [content_type : ContentTypes, message_type : MessageTypes,
     message_version : MessageVersions]

HeaderMaps ==
    UNION {[present -> ContentTypes \cup MessageTypes \cup VersionTexts] :
               present \in SUBSET HeaderNames}

HeaderInit ==
    /\ \E map \in HeaderMaps :
           /\ \A name \in DOMAIN map :
                  map[name] \in
                      CASE name = NATS_HEADER_CONTENT_TYPE_NAME -> ContentTypes
                        [] name = NATS_HEADER_MESSAGE_TYPE_NAME -> MessageTypes
                        [] OTHER -> VersionTexts
           /\ headers = [name \in DOMAIN map |-> <<map[name]>>]
    /\ injected = NotInjected
    /\ parsed = NotParsed
    /\ BindingIdle /\ AssembleIdle /\ ViewIdle
    /\ HandlerIdle /\ PropagationIdle /\ CompileIdle /\ CryptoIdle

Inject ==
    \E self \in ContentInfos :
        /\ headers' = inject_into_headers(self, headers)
        /\ injected' = [set |-> TRUE, info |-> self, before |-> headers]
        /\ parsed' = NotParsed
        /\ UNCHANGED outside_header

Parse ==
    /\ parsed.op = "none"
    /\ parsed' = [op |-> "parse"] @@ try_from(headers)
    /\ UNCHANGED <<headers, injected, outside_header>>

HeaderNext == Inject \/ Parse

HeaderSpec == HeaderInit /\ [][HeaderNext]_vars

Absent(name) == ~headers_get(headers, name).some
VersionText == headers_get(headers, NATS_HEADER_MESSAGE_VERSION_NAME).value
\* The strings that write an unsigned integer in decimal.
UnsignedInteger(str) ==
    \/ str # <<>> /\ \A i \in 1..Len(str) : str[i] \in Digits
    \/ /\ Len(str) > 1 /\ str[1] = "+"
       /\ \A i \in 2..Len(str) : str[i] \in Digits

\* C33: parsing fails with MissingHeader when one of the three headers is
\* absent, with ParseVersion when the three are present and the version is
\* not an unsigned integer, and a ContentInfo that is returned holds in
\* each field what the header of that field holds.
C33_MissingHeaderIsAnError ==
    parsed.op = "parse" =>
        /\ (\E name \in HeaderNames : Absent(name)) =>
               /\ parsed.err = "MissingHeader"
               /\ Absent(parsed.name)
        /\ ((\A name \in HeaderNames : ~Absent(name))
                /\ ~UnsignedInteger(VersionText)) =>
               parsed.err = "ParseVersion"
        /\ parsed.err = "Ok" =>
               /\ \A name \in HeaderNames : ~Absent(name)
               /\ parsed.info.content_type =
                      headers_get(headers, NATS_HEADER_CONTENT_TYPE_NAME).value
               /\ parsed.info.message_type =
                      headers_get(headers, NATS_HEADER_MESSAGE_TYPE_NAME).value
               /\ UnsignedInteger(VersionText)
               /\ parsed.info.message_version =
                      DecimalValue(IF Head(VersionText) = "+"
                                   THEN Tail(VersionText) ELSE VersionText)

\* A map with the two type headers and no version header has been parsed.
C33_Witness ==
    /\ parsed.op = "parse"
    /\ ~Absent(NATS_HEADER_CONTENT_TYPE_NAME)
    /\ ~Absent(NATS_HEADER_MESSAGE_TYPE_NAME)
    /\ Absent(NATS_HEADER_MESSAGE_VERSION_NAME)
    /\ parsed.err = "MissingHeader"
    /\ parsed.name = NATS_HEADER_MESSAGE_VERSION_NAME

\* C38: parsing a header map a ContentInfo was injected into returns a
\* ContentInfo of the same content type, message type and message version,
\* and each of the three headers holds the injected value alone, whatever
\* the map held before.
C38_InjectParseRoundTrip ==
    injected.set =>
        /\ \A name \in DOMAIN injected.before \ HeaderNames :
               headers[name] = injected.before[name]
        /\ headers[NATS_HEADER_CONTENT_TYPE_NAME] = <<injected.info.content_type>>
        /\ headers[NATS_HEADER_MESSAGE_TYPE_NAME] = <<injected.info.message_type>>
        /\ headers[NATS_HEADER_MESSAGE_VERSION_NAME] =
               <<to_string(injected.info.message_version)>>
        /\ parsed.op = "parse" =>
               /\ parsed.err = "Ok"
               /\ parsed.info = injected.info

\* A ContentInfo of a two-digit version was injected into a map that held
\* other values under the three headers, and the map was parsed.
C38_Witness ==
    /\ injected.set /\ parsed.op = "parse" /\ parsed.err = "Ok"
    /\ injected.info.message_version = 42
    /\ \A name \in HeaderNames :
           /\ name \in DOMAIN injected.before
           /\ injected.before[name] # headers[name]

\* C36 as stated: the enqueue is the last step of upsert_attribute_binding,
\* update_attribute_binding_arguments and reset_attribute_binding, so a
\* call of one of them that returns an error has enqueued nothing.
C36_ErrorMeansNothingEnqueued ==
    ((UpsertCalled \/ UpdateCalled \/ ResetCalled) /\ ~Succeeded)
        => result.enq = <<>>

\* The prototype the last call handed to enqueue_dvu_for_impacted_values.
EnqueuedFor ==
    IF UpsertCalled THEN pre_graph.next ELSE call.attribute_prototype_id
\* One enqueue call naming the values the prototype controls, or no call.
EnqueueOf(g, attribute_prototype_id) ==
    IF attribute_value_ids(g, attribute_prototype_id) = {} THEN <<>>
    ELSE <<attribute_value_ids(g, attribute_prototype_id)>>

\* C36 amended: the enqueue follows every graph mutation of the call, so
\* what is enqueued is what the prototype controls in the graph the call
\* leaves; a call that fails before the enqueue has enqueued nothing; and
\* only update_attribute_binding_arguments has a step after the enqueue,
\* the assembling of the function's bindings, whose error is returned with
\* the enqueue made.
C36_EnqueueFollowsMutations ==
    (UpsertCalled \/ UpdateCalled \/ ResetCalled) =>
        /\ result.enq # <<>> => result.enq = EnqueueOf(graph, EnqueuedFor)
        /\ (~Succeeded /\ result.enq # <<>>) =>
               /\ UpdateCalled
               /\ result.err = assemble_attribute_bindings(
                                   graph, graph.func[call.attribute_prototype_id])

\* update_attribute_binding_arguments has replaced the arguments and
\* enqueued the values, and the assembling of the bindings has failed.
C36_Witness ==
    /\ UpdateCalled /\ ~Succeeded
    /\ result.enq = <<attribute_value_ids(graph, call.attribute_prototype_id)>>
    /\ result.err = "AttributeValueMissingProp"

\* C35: enqueue_dvu_for_impacted_values of a prototype leaves the graph as
\* it is and makes one enqueue call naming exactly the attribute values
\* the prototype controls at that moment, or no call when there are none;
\* a successful upsert, update or reset has enqueued just that for its
\* prototype.
C35_EnqueuesControlledValues ==
    /\ \A attribute_prototype_id \in graph.protos :
           LET st == enqueue_dvu_for_impacted_values(Ctx(graph), attribute_prototype_id)
           IN /\ st.g = graph
              /\ st.err = "Ok"
              /\ st.enq = EnqueueOf(graph, attribute_prototype_id)
    /\ ((UpsertCalled \/ UpdateCalled \/ ResetCalled) /\ Succeeded) =>
           result.enq = EnqueueOf(graph, EnqueuedFor)

\* A reset of an override has left its prototype with no value, and no
\* enqueue call was made, while another prototype controls values and a
\* call for it would name them.
C35_Witness ==
    /\ ResetCalled /\ Succeeded /\ call.attribute_value_id # ""
    /\ attribute_value_ids(graph, call.attribute_prototype_id) = {}
    /\ result.enq = <<>>
    /\ \E other \in graph.protos :
           enqueue_dvu_for_impacted_values(Ctx(graph), other).enq
               = <<attribute_value_ids(graph, other)>>

\* The call returned this eventual parent.
Returned(out, eventual_parent) == out.err = "Ok" /\ out.value = eventual_parent

\* C37: assemble_eventual_parent returns None for no id, SchemaVariant(v)
\* for v alone, Component(c) for c alone, and for both SchemaVariant(v)
\* when v is the schema variant of c and MalformedInput otherwise; with a
\* schema variant id supplied it never returns a Component.
C37_AssembleEventualParentCases ==
    assembly.eventual_parent.err # "Pending" =>
        LET out == assembly.eventual_parent
            c == request.component_id
            v == request.schema_variant_id
        IN /\ (c = None /\ v = None) => Returned(out, NoEventualParent)
           /\ (c = None /\ v # None) => Returned(out, EventualParentSchemaVariant(v))
           /\ (c # None /\ v = None) => Returned(out, EventualParentComponent(c))
           /\ (c # None /\ v # None /\ ComponentVariant[c] = v)
                  => Returned(out, EventualParentSchemaVariant(v))
           /\ (c # None /\ v # None /\ ComponentVariant[c] # v)
                  => out.err = "MalformedInput"
           /\ v # None => (out.err # "Ok" \/ out.value.kind # "Component")

\* A request naming a component and its own schema variant was assembled
\* into the schema variant.
C37_Witness ==
    /\ request.component_id # None /\ request.schema_variant_id # None
    /\ ComponentVariant[request.component_id] = request.schema_variant_id
    /\ Returned(assembly.eventual_parent,
                EventualParentSchemaVariant(request.schema_variant_id))

============================================================================
